---- MODULE Spec2Model ----
(***************************************************************************)
(* A model of the unischedule timetabling core: the soft-score evaluator   *)
(* (crates/core/src/scoring.rs), the genetic heuristic                     *)
(* (crates/solver-heur/src/lib.rs), the MILP builder                       *)
(* (crates/solver-milp/src/milp_core.rs, lib.rs) and the dispatcher        *)
(* (crates/api/src/state.rs).                                              *)
(*                                                                         *)
(* Identifiers are strings.  A TimeslotId "<day>.<n>" is the record of its *)
(* two parts [day, idx], which is what split('.') yields.  Positions in    *)
(* lists are 1-based here and 0-based in the source, so the source's       *)
(* `t + 1 < times.len()` reads `t + 1 <= Len(times)`.  Position 0 stands   *)
(* for a failed lookup (None).                                             *)
(***************************************************************************)
EXTENDS Integers, Sequences, FiniteSets, TLC

VARIABLES env, pc, population, iters, parent, result, asg, scores, expanded, returned, jobs, task, reply

vars == <<env, pc, population, iters, parent, result, asg, scores, expanded, returned, jobs, task, reply>>

(***************************************************************************)
(* Helpers on sequences and sets                                           *)
(***************************************************************************)
Range(s) == {s[i] : i \in 1..Len(s)}

Min(a, b) == IF a < b THEN a ELSE b

Max(a, b) == IF a < b THEN b ELSE a

\* The sum of f[x] over x in S.
RECURSIVE SetSum(_, _)
SetSum(S, f) ==
  IF S = {} THEN 0
  ELSE LET x == CHOOSE y \in S : TRUE IN f[x] + SetSum(S \ {x}, f)

\* Position of the last element of s equal to x, 0 when absent: what a HashMap
\* collected from (key, position) pairs returns.
LastIndex(s, x) ==
  LET hits == {i \in 1..Len(s) : s[i] = x}
  IN IF hits = {} THEN 0 ELSE CHOOSE i \in hits : \A j \in hits : j <= i

\* Position of the first element of s equal to x, 0 when absent: Iterator::position.
FirstIndex(s, x) ==
  LET hits == {i \in 1..Len(s) : s[i] = x}
  IN IF hits = {} THEN 0 ELSE CHOOSE i \in hits : \A j \in hits : i <= j

\* Vec::sort_by_key, a stable sort: the numbers of D, listed in ascending order,
\* sorted by key[_]; equal keys keep their order.
sort_by_key(D, key) ==
  LET Before(q, p) == key[q] < key[p] \/ (key[q] = key[p] /\ q < p)
      Rank(p) == Cardinality({q \in D : Before(q, p)}) + 1
  IN [i \in 1..Cardinality(D) |-> CHOOSE p \in D : Rank(p) = i]

(***************************************************************************)
(* Data model (crates/types/src/lib.rs)                                    *)
(***************************************************************************)
TS(d, i) == [day |-> d, idx |-> i]

Teacher(id, available, avoid) ==
  [id |-> id, available |-> available, avoid_slots |-> avoid]

Group(id, size) == [id |-> id, size |-> size]

Room(id, capacity, equip) == [id |-> id, capacity |-> capacity, equip |-> equip]

Course(id, g, t, n, d, needs) ==
  [id |-> id, groupId |-> g, teacherId |-> t, countPerWeek |-> n,
   duration |-> d, needs |-> needs]

Assignment(c, t, r, tch) ==
  [courseId |-> c, timeslot |-> t, roomId |-> r, teacherId |-> tch]

\* Option<RoomId>: None is the string "none"; Option<TimeslotId>: None is NoneTs.
None == "none"

NoneTs == [day |-> "none", idx |-> 0]

PartialPin(c, t, r) == [courseId |-> c, timeslot |-> t, roomId |-> r]

Ids(s) == [i \in 1..Len(s) |-> s[i].id]

(***************************************************************************)
(* Soft-score evaluator (crates/core/src/scoring.rs)                       *)
(***************************************************************************)
\* ts.split('.'): the first part is the day, the second parses to the index.
day_of(ts) == ts.day

day_index(ts) == ts.idx

\* The positions of one day, ordered by the stable sort_by_key on day_index.
day_slots(inst, d) ==
  LET times == inst.timeslots
      D == {k \in 1..Len(times) : day_of(times[k]) = d}
  IN sort_by_key(D, [k \in D |-> day_index(times[k])])

Days(inst) == {day_of(inst.timeslots[k]) : k \in 1..Len(inst.timeslots)}

course_by_id(inst, id) == LastIndex(Ids(inst.courses), id)

ts_index(inst, ts) == LastIndex(inst.timeslots, ts)

\* avoid_by_teacher.get(tid) is Some: a teacher has that id.
has_avoid(inst, tid) == LastIndex(Ids(inst.teachers), tid) # 0

\* avoid_by_teacher[tid]: the avoid set of the last teacher with that id.
avoid_by_teacher(inst, tid) ==
  Range(inst.teachers[LastIndex(Ids(inst.teachers), tid)].avoid_slots)

\* The assignments the scoring loop does not skip.
Scored(inst, a) ==
  course_by_id(inst, a.courseId) # 0 /\ ts_index(inst, a.timeslot) # 0

\* The periods one scored assignment occupies.
ScoredPeriods(inst, a) ==
  LET c == inst.courses[course_by_id(inst, a.courseId)]
      t0 == ts_index(inst, a.timeslot)
  IN {t0} \cup (IF c.duration = 2 /\ t0 + 1 <= Len(inst.timeslots)
                THEN {t0 + 1} ELSE {})

\* A faulty `penalize` that looks at the start alone; C10 does not survive it.
Penalize_start_only(inst, a) ==
  LET c == inst.courses[course_by_id(inst, a.courseId)]
  IN /\ has_avoid(inst, c.teacherId)
     /\ inst.timeslots[ts_index(inst, a.timeslot)] \in avoid_by_teacher(inst, c.teacherId)

\* `penalize` for one scored assignment.
Penalize(inst, a) ==
  LET c == inst.courses[course_by_id(inst, a.courseId)]
  IN /\ has_avoid(inst, c.teacherId)
     /\ \E k \in ScoredPeriods(inst, a) :
          inst.timeslots[k] \in avoid_by_teacher(inst, c.teacherId)

\* The loop over the assignments, counting unpref.
RECURSIVE unpref_loop(_, _, _)
unpref_loop(inst, assignments, i) ==
  IF i > Len(assignments) THEN 0
  ELSE (IF Scored(inst, assignments[i]) /\ Penalize(inst, assignments[i])
        THEN 1 ELSE 0) + unpref_loop(inst, assignments, i + 1)

occ_teacher(inst, assignments) ==
  UNION {{<<inst.courses[course_by_id(inst, a.courseId)].teacherId, k>> :
            k \in ScoredPeriods(inst, a)} :
         a \in {b \in Range(assignments) : Scored(inst, b)}}

occ_group(inst, assignments) ==
  UNION {{<<inst.courses[course_by_id(inst, a.courseId)].groupId, k>> :
            k \in ScoredPeriods(inst, a)} :
         a \in {b \in Range(assignments) : Scored(inst, b)}}

\* A faulty day_windows that skips the days of fewer than two slots; C9 does not
\* survive it.
day_windows_skip_short(inst, occ, id, d) ==
  LET slots == day_slots(inst, d)
      sum_o == Cardinality({i \in 1..Len(slots) : <<id, slots[i]>> \in occ})
      sum_adj == Cardinality({i \in 1..(Len(slots) - 1) :
                   <<id, slots[i]>> \in occ /\ <<id, slots[i + 1]>> \in occ})
  IN IF Len(slots) < 2 THEN 0 ELSE sum_o - sum_adj

\* sum_o - sum_adj of one agent on one day.
day_windows(inst, occ, id, d) ==
  LET slots == day_slots(inst, d)
      sum_o == Cardinality({i \in 1..Len(slots) : <<id, slots[i]>> \in occ})
      sum_adj == Cardinality({i \in 1..(Len(slots) - 1) :
                   <<id, slots[i]>> \in occ /\ <<id, slots[i + 1]>> \in occ})
  IN sum_o - sum_adj

agent_windows(inst, occ, id) ==
  SetSum(Days(inst), [d \in Days(inst) |-> day_windows(inst, occ, id, d)])

compute_soft_scores(inst, assignments) ==
  LET ot == occ_teacher(inst, assignments)
      og == occ_group(inst, assignments)
      tids == Range(Ids(inst.teachers))
      gids == Range(Ids(inst.groups))
      wt == [t \in tids |-> agent_windows(inst, ot, t)]
      wg == [g \in gids |-> agent_windows(inst, og, g)]
      unpref == unpref_loop(inst, assignments, 1)
      total == SetSum(tids, wt) + SetSum(gids, wg)
  IN [unpreferred_meetings |-> unpref,
      windows_teachers |-> wt,
      windows_groups |-> wg,
      windows_total |-> total,
      objective |-> inst.w_unpref * unpref + inst.w_windows * total]

(***************************************************************************)
(* Feasibility index and occupancy (crates/solver-heur/src/lib.rs)         *)
(***************************************************************************)
idx_course(inst, id) == LastIndex(Ids(inst.courses), id)

idx_ts(inst, ts) == LastIndex(inst.timeslots, ts)

idx_room(inst, id) == LastIndex(Ids(inst.rooms), id)

teacher_index(inst, id) == LastIndex(Ids(inst.teachers), id)

group_index(inst, id) == LastIndex(Ids(inst.groups), id)

\* group_size.get(id).unwrap_or(0)
group_size(inst, gid) ==
  IF group_index(inst, gid) = 0 THEN 0 ELSE inst.groups[group_index(inst, gid)].size

room_ok_for_course(inst, room, course) ==
  /\ room.capacity >= group_size(inst, course.groupId)
  /\ course.needs \subseteq room.equip

is_teacher_available(inst, teacher, t, dur2) ==
  LET times == inst.timeslots
      has_t == times[t] \in Range(teacher.available)
      has_t1 == t + 1 <= Len(times) /\ times[t + 1] \in Range(teacher.available)
  IN IF teacher.available = <<>> THEN (~dur2) \/ t + 1 <= Len(times)
     ELSE IF ~dur2 THEN has_t
     ELSE has_t /\ has_t1

\* feas[ci]: the (t, r) starts of course ci.  Every reader of the list shuffles
\* or filters it, so the list is kept as the set of its elements.
build_feasible(inst) ==
  [ci \in 1..Len(inst.courses) |->
     LET c == inst.courses[ci]
         dur2 == c.duration = 2
         ti == teacher_index(inst, c.teacherId)
     IN IF ti = 0 THEN {}
        ELSE {s \in (1..Len(inst.timeslots)) \X (1..Len(inst.rooms)) :
                /\ ~(dur2 /\ s[1] + 1 > Len(inst.timeslots))
                /\ is_teacher_available(inst, inst.teachers[ti], s[1], dur2)
                /\ room_ok_for_course(inst, inst.rooms[s[2]], c)}]

pin_key(a) == <<a.courseId, a.timeslot, a.roomId, a.teacherId>>

EmptyOcc == [room |-> {}, teacher |-> {}, group |-> {}]

\* The cells a meeting of course ci at (t, r) takes in each occupancy set.
Cells(inst, ci, t, r) ==
  LET c == inst.courses[ci]
      ks == IF c.duration = 2 THEN {t, t + 1} ELSE {t}
  IN [room |-> {<<r, k>> : k \in ks},
      teacher |-> {<<teacher_index(inst, c.teacherId), k>> : k \in ks},
      group |-> {<<group_index(inst, c.groupId), k>> : k \in ks}]

\* A faulty place_ok that looks at the room alone; C3 does not survive it.
place_ok_room_only(inst, ci, t, r, occ) ==
  Cells(inst, ci, t, r).room \cap occ.room = {}

\* place_ok's verdict.
place_ok(inst, ci, t, r, occ) ==
  LET c == inst.courses[ci]
      cells == Cells(inst, ci, t, r)
  IN /\ teacher_index(inst, c.teacherId) # 0
     /\ group_index(inst, c.groupId) # 0
     /\ cells.room \cap occ.room = {}
     /\ cells.teacher \cap occ.teacher = {}
     /\ cells.group \cap occ.group = {}

\* The occupancy place_ok leaves behind when it returns true.
occ_insert(inst, ci, t, r, occ) ==
  LET cells == Cells(inst, ci, t, r)
  IN [room |-> occ.room \cup cells.room,
      teacher |-> occ.teacher \cup cells.teacher,
      group |-> occ.group \cup cells.group]

\* The removals mutate makes before it moves a meeting.
occ_remove(inst, ci, t, r, occ) ==
  LET cells == Cells(inst, ci, t, r)
  IN [room |-> occ.room \ cells.room,
      teacher |-> occ.teacher \ cells.teacher,
      group |-> occ.group \ cells.group]

CountCourse(assignments, cid) ==
  Cardinality({i \in 1..Len(assignments) : assignments[i].courseId = cid})

(***************************************************************************)
(* Construction: randomized_construct_with_pins_and_base.  The shuffles    *)
(* are nondeterministic, so the function is the set of its outcomes.       *)
(***************************************************************************)
\* Construction failed (the function returned None).
Fail == [ok |-> FALSE, assignments |-> <<>>]

NewAssignment(inst, ci, t, r) ==
  Assignment(inst.courses[ci].id, inst.timeslots[t], inst.rooms[r].id,
             inst.courses[ci].teacherId)

\* The loop over the pins; st is [ok, occ, assignments, pinned_set].
RECURSIVE pins_loop(_, _, _, _)
pins_loop(inst, pins, i, st) ==
  IF i > Len(pins) THEN st
  ELSE LET a == pins[i]
           ci == idx_course(inst, a.courseId)
           ti == idx_ts(inst, a.timeslot)
           ri == idx_room(inst, a.roomId)
       IN IF ci = 0 \/ ti = 0 \/ ri = 0 THEN pins_loop(inst, pins, i + 1, st)
          ELSE IF ~place_ok(inst, ci, ti, ri, st.occ) THEN [st EXCEPT !.ok = FALSE]
          ELSE pins_loop(inst, pins, i + 1,
                 [ok |-> TRUE,
                  occ |-> occ_insert(inst, ci, ti, ri, st.occ),
                  assignments |-> Append(st.assignments, a),
                  pinned_set |-> st.pinned_set \cup {pin_key(a)}])

\* The loop over the base.
RECURSIVE base_loop(_, _, _, _)
base_loop(inst, base, i, st) ==
  IF i > Len(base) THEN st
  ELSE LET a == base[i]
           ci == idx_course(inst, a.courseId)
           ti == idx_ts(inst, a.timeslot)
           ri == idx_room(inst, a.roomId)
       IN IF pin_key(a) \in st.pinned_set THEN base_loop(inst, base, i + 1, st)
          ELSE IF ci = 0 \/ ti = 0 \/ ri = 0 THEN base_loop(inst, base, i + 1, st)
          ELSE IF CountCourse(st.assignments, inst.courses[ci].id)
                    >= inst.courses[ci].countPerWeek
            THEN base_loop(inst, base, i + 1, st)
          ELSE IF place_ok(inst, ci, ti, ri, st.occ)
            THEN base_loop(inst, base, i + 1,
                   [st EXCEPT !.occ = occ_insert(inst, ci, ti, ri, st.occ),
                              !.assignments = Append(st.assignments, a)])
          ELSE base_loop(inst, base, i + 1, st)

\* A lock's id resolves: the course, and the timeslot and room when given.
lock_resolves(inst, l) ==
  /\ idx_course(inst, l.courseId) # 0
  /\ l.timeslot = NoneTs \/ idx_ts(inst, l.timeslot) # 0
  /\ l.roomId = None \/ idx_room(inst, l.roomId) # 0

\* A resolved lock as (t_opt, r_opt); 0 is None.
lock_axes(inst, l) ==
  <<IF l.timeslot = NoneTs THEN 0 ELSE idx_ts(inst, l.timeslot),
    IF l.roomId = None THEN 0 ELSE idx_room(inst, l.roomId)>>

\* Some assignment placed so far already satisfies the lock.
lock_satisfied(inst, l, assignments) ==
  LET ci == idx_course(inst, l.courseId)
      ax == lock_axes(inst, l)
  IN \E i \in 1..Len(assignments) :
       /\ assignments[i].courseId = inst.courses[ci].id
       /\ ax[1] = 0 \/ inst.timeslots[ax[1]] = assignments[i].timeslot
       /\ ax[2] = 0 \/ inst.rooms[ax[2]].id = assignments[i].roomId

\* The 'locks loop: [ok, by_course], by_course[ci] the list of the open locks.
RECURSIVE locks_loop(_, _, _, _, _)
locks_loop(inst, locks, i, assignments, by_course) ==
  IF i > Len(locks) THEN [ok |-> TRUE, by_course |-> by_course]
  ELSE LET l == locks[i]
           ci == idx_course(inst, l.courseId)
       IN IF ~lock_resolves(inst, l) THEN [ok |-> FALSE, by_course |-> by_course]
          ELSE IF lock_satisfied(inst, l, assignments)
            THEN locks_loop(inst, locks, i + 1, assignments, by_course)
          ELSE locks_loop(inst, locks, i + 1, assignments,
                 [by_course EXCEPT ![ci] = Append(@, lock_axes(inst, l))])

\* The starts a lock leaves of feas[ci].
lock_starts(feas, ci, ax) ==
  {s \in feas[ci] : (ax[1] = 0 \/ s[1] = ax[1]) /\ (ax[2] = 0 \/ s[2] = ax[2])}

\* Placing the open locks of one course: the set of [ok, occ, assignments].
RECURSIVE place_locks(_, _, _, _, _, _, _)
place_locks(inst, feas, ci, course_locks, i, occ, assignments) ==
  IF i > Len(course_locks)
    THEN {[ok |-> TRUE, occ |-> occ, assignments |-> assignments]}
  ELSE LET oks == {s \in lock_starts(feas, ci, course_locks[i]) :
                     place_ok(inst, ci, s[1], s[2], occ)}
       IN IF oks = {} THEN {[ok |-> FALSE, occ |-> occ, assignments |-> assignments]}
          ELSE UNION {place_locks(inst, feas, ci, course_locks, i + 1,
                        occ_insert(inst, ci, s[1], s[2], occ),
                        Append(assignments, NewAssignment(inst, ci, s[1], s[2]))) :
                      s \in oks}

\* Filling `need` meetings of one course from the shuffled starts: the next start
\* taken is any start that place_ok accepts; none left before need is met fails.
RECURSIVE fill(_, _, _, _, _, _)
fill(inst, feas, ci, need, occ, assignments) ==
  IF need = 0 THEN {[ok |-> TRUE, occ |-> occ, assignments |-> assignments]}
  ELSE LET oks == {s \in feas[ci] : place_ok(inst, ci, s[1], s[2], occ)}
       IN IF oks = {} THEN {[ok |-> FALSE, occ |-> occ, assignments |-> assignments]}
          ELSE UNION {fill(inst, feas, ci, need - 1,
                        occ_insert(inst, ci, s[1], s[2], occ),
                        Append(assignments, NewAssignment(inst, ci, s[1], s[2]))) :
                      s \in oks}

\* A faulty course_step without the test of have0 against countPerWeek; C1 does
\* not survive it.
course_step_unchecked(inst, feas, ci, course_locks, occ, assignments) ==
  LET c == inst.courses[ci]
  IN UNION {
       IF ~s.ok THEN {s}
       ELSE fill(inst, feas, ci,
                 Max(c.countPerWeek - CountCourse(s.assignments, c.id), 0),
                 s.occ, s.assignments) :
       s \in place_locks(inst, feas, ci, course_locks, 1, occ, assignments)}

\* One course of the loop over `order`: locks, then the remainder.
course_step(inst, feas, ci, course_locks, occ, assignments) ==
  LET c == inst.courses[ci]
      have0 == CountCourse(assignments, c.id)
  IN IF have0 + Len(course_locks) > c.countPerWeek
       THEN {[ok |-> FALSE, occ |-> occ, assignments |-> assignments]}
     ELSE UNION {
       IF ~s.ok THEN {s}
       ELSE fill(inst, feas, ci,
                 Max(c.countPerWeek - CountCourse(s.assignments, c.id), 0),
                 s.occ, s.assignments) :
       s \in place_locks(inst, feas, ci, course_locks, 1, occ, assignments)}

\* The loop over `order`: the set of [ok, assignments].
RECURSIVE course_loop(_, _, _, _, _, _, _)
course_loop(inst, feas, by_course, order, oi, occ, assignments) ==
  IF oi > Len(order) THEN {[ok |-> TRUE, assignments |-> assignments]}
  ELSE UNION {
    IF ~s.ok THEN {Fail}
    ELSE course_loop(inst, feas, by_course, order, oi + 1, s.occ, s.assignments) :
    s \in course_step(inst, feas, order[oi], by_course[order[oi]], occ, assignments)}

\* order.sort_by_key(|ci| feas[ci].len())
course_order(inst, feas) ==
  sort_by_key(1..Len(inst.courses),
              [ci \in 1..Len(inst.courses) |-> Cardinality(feas[ci])])

\* Every outcome of randomized_construct_with_pins_and_base: [ok, assignments].
randomized_construct_with_pins_and_base(inst, feas, pins, base, locks) ==
  LET st0 == [ok |-> TRUE, occ |-> EmptyOcc, assignments |-> <<>>, pinned_set |-> {}]
      st1 == pins_loop(inst, pins, 1, st0)
      st2 == base_loop(inst, base, 1, st1)
      lk == locks_loop(inst, locks, 1, st2.assignments,
                       [ci \in 1..Len(inst.courses) |-> <<>>])
  IN IF ~st1.ok THEN {Fail}
     ELSE IF ~lk.ok THEN {Fail}
     ELSE course_loop(inst, feas, lk.by_course, course_order(inst, feas), 1,
                      st2.occ, st2.assignments)

\* Candidate::evaluate
Candidate(inst, assignments) ==
  [assignments |-> assignments,
   objective |-> compute_soft_scores(inst, assignments).objective]

(***************************************************************************)
(* Mutation, tournament, sorted insertion                                  *)
(***************************************************************************)
\* The lock sets HeurSolver::solve and improve_from derive from the partial pins.
time_locked(locks) ==
  {<<l.courseId, l.timeslot>> : l \in {x \in Range(locks) : x.timeslot # NoneTs}}

room_locked(locks) ==
  {<<l.courseId, l.roomId>> : l \in {x \in Range(locks) : x.roomId # None}}

time_room_locked(locks) ==
  {<<l.courseId, l.timeslot, l.roomId>> :
     l \in {x \in Range(locks) : x.timeslot # NoneTs /\ x.roomId # None}}

pinset(pins) == {pin_key(a) : a \in Range(pins)}

\* The occupancy mutate rebuilds from its parent.
RECURSIVE parent_occ(_, _, _)
parent_occ(inst, assignments, i) ==
  IF i = 0 THEN EmptyOcc
  ELSE LET a == assignments[i]
       IN occ_insert(inst, FirstIndex(Ids(inst.courses), a.courseId),
                     FirstIndex(inst.timeslots, a.timeslot),
                     FirstIndex(Ids(inst.rooms), a.roomId),
                     parent_occ(inst, assignments, i - 1))

\* mutations = 1 + (len / 10).min(3)
MutationsDiv == 10

MutationsMax == 3

mutations(assignments) == 1 + Min(Len(assignments) \div MutationsDiv, MutationsMax)

\* The loop `for _ in 0..mutations`: the set of the children it can return.
\* The draw of `ai` ends on any unpinned position, or, when a pinned position
\* exists, may exhaust its tries and return the parent as it stands.
RECURSIVE mutate_loop(_, _, _, _, _, _, _)
mutate_loop(inst, feas, n, occ, assignments, pinned_set, locks) ==
  IF n = 0 THEN {assignments}
  ELSE
    LET free == {i \in 1..Len(assignments) : pin_key(assignments[i]) \notin pinned_set}
        step(ai) ==
          LET a == assignments[ai]
              ci == FirstIndex(Ids(inst.courses), a.courseId)
              c == inst.courses[ci]
              t0 == FirstIndex(inst.timeslots, a.timeslot)
              r0 == FirstIndex(Ids(inst.rooms), a.roomId)
              occ1 == occ_remove(inst, ci, t0, r0, occ)
              candidates ==
                {s \in feas[ci] :
                   /\ <<c.id, a.timeslot>> \in time_locked(locks) => s[1] = t0
                   /\ <<c.id, a.roomId>> \in room_locked(locks) => s[2] = r0}
              oks == {s \in candidates : place_ok(inst, ci, s[1], s[2], occ1)}
          IN IF <<c.id, a.timeslot, a.roomId>> \in time_room_locked(locks)
               THEN mutate_loop(inst, feas, n - 1, occ, assignments, pinned_set, locks)
             ELSE IF oks = {}
               THEN mutate_loop(inst, feas, n - 1,
                      IF place_ok(inst, ci, t0, r0, occ1)
                        THEN occ_insert(inst, ci, t0, r0, occ1) ELSE occ1,
                      assignments, pinned_set, locks)
             ELSE UNION {mutate_loop(inst, feas, n - 1,
                           occ_insert(inst, ci, s[1], s[2], occ1),
                           [assignments EXCEPT ![ai] = NewAssignment(inst, ci, s[1], s[2])],
                           pinned_set, locks) : s \in oks}
    IN (IF free # 1..Len(assignments) THEN {assignments} ELSE {})
         \cup UNION {step(ai) : ai \in free}

\* Every child mutate can return for a parent's assignments.
mutate(inst, feas, assignments, pinned_set, locks) ==
  IF assignments = <<>> THEN {assignments}
  ELSE IF Len(assignments) = Cardinality(pinned_set) THEN {assignments}
  ELSE mutate_loop(inst, feas, mutations(assignments),
                   parent_occ(inst, assignments, Len(assignments)),
                   assignments, pinned_set, locks)

\* tournament(pop, k): the winner of one sequence of k draws.
TournamentSize == 3

tournament(pop, draws) ==
  LET better(best, i) == IF pop[i].objective < pop[best].objective THEN i ELSE best
      RECURSIVE win(_, _)
      win(best, j) == IF j > Len(draws) THEN best ELSE win(better(best, draws[j]), j + 1)
  IN pop[win(draws[1], 2)]

\* A variant of insert_sorted that puts the candidate last.
insert_sorted_last(pop, c) == Append(pop, c)

\* insert_sorted: partition_point on a list sorted by objective is the length of
\* the prefix whose objective is <= the candidate's.
insert_sorted(pop, c) ==
  LET pos == Cardinality({i \in 1..Len(pop) :
                            \A j \in 1..i : pop[j].objective <= c.objective})
  IN SubSeq(pop, 1, pos) \o <<c>> \o SubSeq(pop, pos + 1, Len(pop))

\* population.sort_by(objective), a stable sort.
sort_population(pop) ==
  LET ord == sort_by_key(1..Len(pop), [i \in 1..Len(pop) |-> pop[i].objective])
  IN [i \in 1..Len(pop) |-> pop[ord[i]]]

\* sched_core::SolveResult: status, objective and assignments.
\* stats holds the keys of the statistics object the dispatcher reads or writes.
NoResult ==
  [status |-> "none", objective |-> 0, assignments |-> <<>>, stats |-> [method |-> ""]]

SolveResult(status, objective, assignments, method) ==
  [status |-> status, objective |-> objective, assignments |-> assignments,
   stats |-> [method |-> method]]

\* The last answer of a route of the job registry: none yet.
NoReply == [n |-> 0, route |-> "none", id |-> 0, body |-> [status |-> "none"]]

(***************************************************************************)
(* MILP builder (crates/solver-milp/src/milp_core.rs, lib.rs)              *)
(***************************************************************************)
\* The pins build_pinned keeps: those whose course, timeslot and room resolve.
pin_resolves(inst, a) ==
  /\ idx_course(inst, a.courseId) # 0
  /\ idx_ts(inst, a.timeslot) # 0
  /\ idx_room(inst, a.roomId) # 0

\* The periods a resolved pin marks: ti, and ti + 1 for duration 2 when it exists.
pin_periods(inst, a) ==
  LET ti == idx_ts(inst, a.timeslot)
      c == inst.courses[idx_course(inst, a.courseId)]
  IN {ti} \cup (IF c.duration = 2 /\ ti + 1 <= Len(inst.timeslots) THEN {ti + 1} ELSE {})

\* `penalize` of a resolved pin, read from the avoid set of the pin's teacherId.
pin_penalize(inst, a) ==
  /\ has_avoid(inst, a.teacherId)
  /\ \E k \in pin_periods(inst, a) : inst.timeslots[k] \in avoid_by_teacher(inst, a.teacherId)

build_pinned(e) ==
  LET inst == e.instance
      kept == SelectSeq(e.pinned, LAMBDA a : pin_resolves(inst, a))
      K == 1..Len(kept)
  IN [vec |-> kept,
      room |-> UNION {{<<idx_room(inst, kept[i].roomId), k>> :
                         k \in pin_periods(inst, kept[i])} : i \in K},
      teacher |-> UNION {{<<kept[i].teacherId, k>> :
                            k \in pin_periods(inst, kept[i])} : i \in K},
      group |-> UNION {{<<inst.courses[idx_course(inst, kept[i].courseId)].groupId, k>> :
                          k \in pin_periods(inst, kept[i])} : i \in K},
      count_by_course |->
        [ci \in 1..Len(inst.courses) |->
           Cardinality({i \in K : idx_course(inst, kept[i].courseId) = ci})],
      unpref_pinned_count |-> Cardinality({i \in K : pin_penalize(inst, kept[i])})]

\* build_prep: the teacher and group ids that get occupancy variables, the
\* pinned state, and the locks (t and r are 0 for None or for an id that does
\* not resolve; a lock whose course does not resolve is dropped).
build_prep(e) ==
  LET inst == e.instance
      known == SelectSeq(e.partial_pins, LAMBDA l : idx_course(inst, l.courseId) # 0)
  IN [inst |-> inst,
      teacher_ids |-> {inst.courses[ci].teacherId : ci \in 1..Len(inst.courses)}
                        \cup {a.teacherId : a \in Range(e.pinned)},
      group_ids |-> {inst.courses[ci].groupId : ci \in 1..Len(inst.courses)},
      pinned |-> build_pinned(e),
      locks |-> [i \in 1..Len(known) |->
                   [c |-> idx_course(inst, known[i].courseId),
                    t |-> IF known[i].timeslot = NoneTs THEN 0
                          ELSE FirstIndex(inst.timeslots, known[i].timeslot),
                    r |-> IF known[i].roomId = None THEN 0
                          ELSE FirstIndex(Ids(inst.rooms), known[i].roomId)]]]

teacher_available(inst, teacher, t, dur2) == is_teacher_available(inst, teacher, t, dur2)

\* A start variable x_{c,t,r} is the triple <<c, t, r>>.
declare_starts(prep) ==
  LET inst == prep.inst
      pinned == prep.pinned
  IN {s \in (1..Len(inst.courses)) \X (1..Len(inst.timeslots)) \X (1..Len(inst.rooms)) :
        LET c == inst.courses[s[1]]
            t == s[2]
            dur2 == c.duration = 2
            ks == IF dur2 THEN {t, t + 1} ELSE {t}
        IN /\ teacher_index(inst, c.teacherId) # 0
           /\ ~(dur2 /\ t + 1 > Len(inst.timeslots))
           /\ teacher_available(inst, inst.teachers[teacher_index(inst, c.teacherId)], t, dur2)
           /\ room_ok_for_course(inst, inst.rooms[s[3]], c)
           /\ \A k \in ks : /\ <<s[3], k>> \notin pinned.room
                            /\ <<c.teacherId, k>> \notin pinned.teacher
                            /\ <<c.groupId, k>> \notin pinned.group}

occupies(inst, s, k) ==
  IF inst.courses[s[1]].duration = 1 THEN s[2] = k ELSE s[2] = k \/ s[2] + 1 = k

\* The value of sum x_s over the starts of list S that are chosen in X.
SumOver(X, S) == Cardinality(X \cap S)

add_course_count_constraints(prep, X) ==
  \A ci \in 1..Len(prep.inst.courses) :
    SumOver(X, {s \in X : s[1] = ci}) =
      Max(prep.inst.courses[ci].countPerWeek - prep.pinned.count_by_course[ci], 0)

add_room_capacity_constraints(prep, X) ==
  \A ri \in 1..Len(prep.inst.rooms), k \in 1..Len(prep.inst.timeslots) :
    SumOver(X, {s \in X : s[3] = ri /\ occupies(prep.inst, s, k)})
      <= (IF <<ri, k>> \in prep.pinned.room THEN 0 ELSE 1)

teacher_load(prep, X, tid, k) ==
  SumOver(X, {s \in X : prep.inst.courses[s[1]].teacherId = tid /\ occupies(prep.inst, s, k)})

group_load(prep, X, gid, k) ==
  SumOver(X, {s \in X : prep.inst.courses[s[1]].groupId = gid /\ occupies(prep.inst, s, k)})

add_teacher_capacity_constraints(prep, X) ==
  \A tid \in prep.teacher_ids, k \in 1..Len(prep.inst.timeslots) :
    teacher_load(prep, X, tid, k) <= (IF <<tid, k>> \in prep.pinned.teacher THEN 0 ELSE 1)

add_group_capacity_constraints(prep, X) ==
  \A gid \in prep.group_ids, k \in 1..Len(prep.inst.timeslots) :
    group_load(prep, X, gid, k) <= (IF <<gid, k>> \in prep.pinned.group THEN 0 ELSE 1)

\* link_occupancy: the value the equality forces on ot[tid, k] and og[gid, k].
ot_value(prep, X, tid, k) ==
  teacher_load(prep, X, tid, k) + (IF <<tid, k>> \in prep.pinned.teacher THEN 1 ELSE 0)

og_value(prep, X, gid, k) ==
  group_load(prep, X, gid, k) + (IF <<gid, k>> \in prep.pinned.group THEN 1 ELSE 0)

\* The occupancy variables are binary.
link_occupancy(prep, X) ==
  /\ \A tid \in prep.teacher_ids, k \in 1..Len(prep.inst.timeslots) :
       ot_value(prep, X, tid, k) \in {0, 1}
  /\ \A gid \in prep.group_ids, k \in 1..Len(prep.inst.timeslots) :
       og_value(prep, X, gid, k) \in {0, 1}

add_partial_lock_constraints(prep, X) ==
  \A i \in 1..Len(prep.locks) :
    LET lk == prep.locks[i]
    IN SumOver(X, {s \in X : /\ s[1] = lk.c
                             /\ lk.t = 0 \/ s[2] = lk.t
                             /\ lk.r = 0 \/ s[3] = lk.r}) = 1

\* add_adjacency_constraints make each adjacency variable the product of its two
\* occupancy variables; the sum of the adjacency variables of one agent.
adjacency_sum(prep, O) ==
  SetSum(Days(prep.inst),
         [d \in Days(prep.inst) |->
            LET slots == day_slots(prep.inst, d)
            IN Cardinality({i \in 1..(Len(slots) - 1) :
                              O[slots[i]] = 1 /\ O[slots[i + 1]] = 1})])

\* The occupancy terms of the objective of one agent: days of fewer than two
\* slots are skipped.
occupancy_sum(prep, O) ==
  SetSum(Days(prep.inst),
         [d \in Days(prep.inst) |->
            LET slots == day_slots(prep.inst, d)
                f == [i \in 1..Len(slots) |-> O[slots[i]]]
            IN IF Len(slots) < 2 THEN 0 ELSE SetSum(1..Len(slots), f)])

start_penalize(prep, s) ==
  LET inst == prep.inst
      c == inst.courses[s[1]]
  IN /\ has_avoid(inst, c.teacherId)
     /\ \/ inst.timeslots[s[2]] \in avoid_by_teacher(inst, c.teacherId)
        \/ /\ c.duration = 2
           /\ s[2] + 1 <= Len(inst.timeslots)
           /\ inst.timeslots[s[2] + 1] \in avoid_by_teacher(inst, c.teacherId)

\* sol.eval(objective) at the solution that sets exactly the starts of X.
build_objective(prep, X) ==
  LET inst == prep.inst
      unpref_part ==
        IF inst.w_unpref > 0
          THEN inst.w_unpref * SumOver(X, {s \in X : start_penalize(prep, s)})
               + (IF prep.pinned.unpref_pinned_count > 0
                    THEN inst.w_unpref * prep.pinned.unpref_pinned_count ELSE 0)
          ELSE 0
      tw == [tid \in prep.teacher_ids |->
               LET O == [k \in 1..Len(inst.timeslots) |-> ot_value(prep, X, tid, k)]
               IN occupancy_sum(prep, O) - adjacency_sum(prep, O)]
      gw == [gid \in prep.group_ids |->
               LET O == [k \in 1..Len(inst.timeslots) |-> og_value(prep, X, gid, k)]
               IN occupancy_sum(prep, O) - adjacency_sum(prep, O)]
      windows_part ==
        IF inst.w_windows > 0
          THEN inst.w_windows * (SetSum(prep.teacher_ids, tw) + SetSum(prep.group_ids, gw))
          ELSE 0
  IN unpref_part + windows_part

\* Every constraint solve_with_milp adds to the model.
Constraints(prep, X) ==
  /\ add_course_count_constraints(prep, X)
  /\ add_room_capacity_constraints(prep, X)
  /\ add_teacher_capacity_constraints(prep, X)
  /\ add_group_capacity_constraints(prep, X)
  /\ link_occupancy(prep, X)
  /\ add_partial_lock_constraints(prep, X)

\* The starts of X in the order of the list `starts`: by course, timeslot, room.
RECURSIVE extract_starts(_)
extract_starts(X) ==
  IF X = {} THEN <<>>
  ELSE LET Le(a, b) ==
             \/ a[1] < b[1]
             \/ a[1] = b[1] /\ a[2] < b[2]
             \/ a[1] = b[1] /\ a[2] = b[2] /\ a[3] <= b[3]
           m == CHOOSE a \in X : \A b \in X : Le(a, b)
       IN <<m>> \o extract_starts(X \ {m})

extract_solution(prep, X) ==
  LET xs == extract_starts(X)
  IN prep.pinned.vec \o
       [i \in 1..Len(xs) |-> NewAssignment(prep.inst, xs[i][1], xs[i][2], xs[i][3])]

\* A variant whose infeasible results carry no assignments.
solve_with_milp_no_pins(e) ==
  LET prep == build_prep(e)
      starts == declare_starts(prep)
      F == {X \in SUBSET starts : Constraints(prep, X)}
      obj == [X \in F |-> build_objective(prep, X)]
      best == {X \in F : \A Y \in F : obj[X] <= obj[Y]}
  IN IF starts = {} \/ F = {} THEN {SolveResult("infeasible", 0, <<>>, "milp")}
     ELSE {SolveResult("solved", obj[X], extract_solution(prep, X), "milp") : X \in best}

\* Every result solve_with_milp can return: the backend returns a feasible
\* solution of least objective, or fails when the model has none.
solve_with_milp(e) ==
  LET prep == build_prep(e)
      starts == declare_starts(prep)
      F == {X \in SUBSET starts : Constraints(prep, X)}
      obj == [X \in F |-> build_objective(prep, X)]
      best == {X \in F : \A Y \in F : obj[X] <= obj[Y]}
  IN IF starts = {} THEN {SolveResult("infeasible", 0, e.pinned, "milp")}
     ELSE IF F = {} THEN {SolveResult("infeasible", 0, e.pinned, "milp")}
     ELSE {SolveResult("solved", obj[X], extract_solution(prep, X), "milp") : X \in best}

(***************************************************************************)
(* Mask preprocessor (crates/api/src/state.rs)                             *)
(***************************************************************************)
\* types::LockMask; an axis is the set of the elements of its list, which the
\* source only tests for emptiness and membership.
LockMask(courses, groups, teachers, rooms, days, times, lock, negate) ==
  [courses |-> courses, groups |-> groups, teachers |-> teachers, rooms |-> rooms,
   days |-> days, times |-> times, lock |-> lock, negate |-> negate]

\* TimeslotId(String::new()) and RoomId(String::new()): the empty string.
EmptyTs == [day |-> "", idx |-> 0]

EmptyRoom == ""

\* The match of mask_matches on day_of(ts): a prefix that names no day is Sun.
DayOfWeek(ts) ==
  IF ts.day \in {"mon", "tue", "wed", "thu", "fri", "sat"} THEN ts.day ELSE "sun"

mask_matches(m, a, inst) ==
  LET ci == FirstIndex(Ids(inst.courses), a.courseId)
  IN /\ m.courses # {} => a.courseId \in m.courses
     /\ m.groups # {} => (ci # 0 /\ inst.courses[ci].groupId \in m.groups)
     /\ m.teachers # {} => a.teacherId \in m.teachers
     /\ m.rooms # {} => a.roomId \in m.rooms
     /\ m.days # {} => DayOfWeek(a.timeslot) \in m.days
     /\ m.times # {} => a.timeslot \in m.times

partial_pin_matches_mask(m, p, inst) ==
  LET ci == FirstIndex(Ids(inst.courses), p.courseId)
  IN IF m.times # {} /\ p.timeslot = NoneTs THEN FALSE
     ELSE IF m.rooms # {} /\ p.roomId = None THEN FALSE
     ELSE IF ci = 0 THEN FALSE
     ELSE mask_matches(m,
            Assignment(p.courseId,
                       IF p.timeslot = NoneTs THEN EmptyTs ELSE p.timeslot,
                       IF p.roomId = None THEN EmptyRoom ELSE p.roomId,
                       inst.courses[ci].teacherId),
            inst)

\* The loop over the negate masks: [pinned, partial_pins] after the retains.
RECURSIVE negate_loop(_, _, _, _, _)
negate_loop(inst, masks, i, pinned, partial_pins) ==
  IF i > Len(masks) THEN [pinned |-> pinned, partial_pins |-> partial_pins]
  ELSE IF ~masks[i].negate THEN negate_loop(inst, masks, i + 1, pinned, partial_pins)
  ELSE negate_loop(inst, masks, i + 1,
         SelectSeq(pinned, LAMBDA a : ~mask_matches(masks[i], a, inst)),
         SelectSeq(partial_pins, LAMBDA q : ~partial_pin_matches_mask(masks[i], q, inst)))

\* What one additive mask does with one matching base assignment.
mask_add(m, a, st) ==
  IF m.lock = "Full"
    THEN IF pin_key(a) \in st.pins_set THEN st
         ELSE [st EXCEPT !.pinned = Append(@, a), !.pins_set = @ \cup {pin_key(a)}]
  ELSE IF m.lock = "TimeslotOnly"
    THEN [st EXCEPT !.partial = Append(@, PartialPin(a.courseId, a.timeslot, None))]
  ELSE IF m.lock = "RoomOnly"
    THEN [st EXCEPT !.partial = Append(@, PartialPin(a.courseId, NoneTs, a.roomId))]
  ELSE [st EXCEPT !.partial = Append(@, PartialPin(a.courseId, a.timeslot, a.roomId))]

\* The loops over the masks and, for a non-negate mask, over the base.
RECURSIVE additive_loop(_, _, _, _, _, _)
additive_loop(inst, masks, base, i, j, st) ==
  IF i > Len(masks) THEN st
  ELSE IF masks[i].negate \/ j > Len(base)
    THEN additive_loop(inst, masks, base, i + 1, 1, st)
  ELSE additive_loop(inst, masks, base, i, j + 1,
         IF mask_matches(masks[i], base[j], inst) THEN mask_add(masks[i], base[j], st)
         ELSE st)

\* The order of String on the identifiers in use, the empty string first.
LexOrder == <<"", "C1", "C2", "CX", "G1", "G2", "R1", "R2", "T1", "T2">>

\* The order of String on the day prefixes; the timeslot ids in use have three
\* letters, a dot and one digit, so they order by prefix and then by digit.
DayLexOrder == <<"fri", "mon", "sat", "sun", "thu", "tue", "wed">>

KeyBase == 100

\* The sort key of a partial pin: (courseId, Option timeslot, Option roomId), None
\* before Some, as one number.
partial_key(q) ==
  LET ck == FirstIndex(LexOrder, q.courseId)
      tk == IF q.timeslot = NoneTs THEN 0
            ELSE 1 + FirstIndex(DayLexOrder, q.timeslot.day) * 10 + q.timeslot.idx
      rk == IF q.roomId = None THEN 0 ELSE 1 + FirstIndex(LexOrder, q.roomId)
  IN (ck * KeyBase + tk) * KeyBase + rk

\* A variant that leaves the list in the order of insertion.
sort_partial_unsorted(partial) == partial

\* partial.sort_by on the triple, a stable sort.
sort_partial(partial) ==
  LET ord == sort_by_key(1..Len(partial), [i \in 1..Len(partial) |-> partial_key(partial[i])])
  IN [i \in 1..Len(partial) |-> partial[ord[i]]]

\* A variant that keeps every element.
dedup_partial_keep_all(partial) == partial

\* Vec::dedup_by: an element equal to the one before it is dropped.
dedup_partial(partial) ==
  LET keep == {i \in 1..Len(partial) : i = 1 \/ partial[i] # partial[i - 1]}
      ord == sort_by_key(keep, [i \in keep |-> i])
  IN [i \in 1..Cardinality(keep) |-> partial[ord[i]]]

\* A variant that applies every mask, negate or not, at its position in the list.
RECURSIVE in_order_loop(_, _, _, _)
in_order_loop(e, i, pinned, partial) ==
  IF i > Len(e.masks) THEN [pinned |-> pinned, partial |-> partial]
  ELSE LET m == e.masks[i]
       IN IF m.negate
            THEN in_order_loop(e, i + 1,
                   SelectSeq(pinned, LAMBDA a : ~mask_matches(m, a, e.instance)),
                   SelectSeq(partial, LAMBDA q : ~partial_pin_matches_mask(m, q, e.instance)))
          ELSE LET st == additive_loop(e.instance, <<m>>, e.base, 1, 1,
                           [pinned |-> pinned,
                            pins_set |-> {pin_key(a) : a \in Range(pinned)},
                            partial |-> partial])
               IN in_order_loop(e, i + 1, st.pinned, st.partial)

apply_masks_in_order(e) ==
  IF e.masks = <<>> THEN e
  ELSE LET st == in_order_loop(e, 1, e.pinned, e.partial_pins)
       IN [e EXCEPT !.pinned = st.pinned,
                    !.partial_pins = dedup_partial(sort_partial(st.partial))]

apply_masks(e) ==
  IF e.masks = <<>> THEN e
  ELSE LET kept == negate_loop(e.instance, e.masks, 1, e.pinned, e.partial_pins)
           st == additive_loop(e.instance, e.masks, e.base, 1, 1,
                   [pinned |-> kept.pinned,
                    pins_set |-> {pin_key(a) : a \in Range(kept.pinned)},
                    partial |-> kept.partial_pins])
       IN [e EXCEPT !.pinned = st.pinned,
                    !.partial_pins = dedup_partial(sort_partial(st.partial))]

(***************************************************************************)
(* Inputs: the instances and envelopes the model explores                  *)
(***************************************************************************)
Mon0 == TS("mon", 0)

Mon1 == TS("mon", 1)

Mon2 == TS("mon", 2)

Tue0 == TS("tue", 0)

\* A timeslot id no instance lists.
Sun9 == TS("sun", 9)

Instance(teachers, groups, rooms, courses, timeslots, wu, ww) ==
  [teachers |-> teachers, groups |-> groups, rooms |-> rooms, courses |-> courses,
   timeslots |-> timeslots, w_unpref |-> wu, w_windows |-> ww]

\* One course of two single-period meetings, a room too small for its group,
\* a day of two periods and a day of one; the teacher avoids mon.0.
Inst1 ==
  Instance(<<Teacher("T1", <<>>, <<Mon0>>)>>,
           <<Group("G1", 10)>>,
           <<Room("R1", 30, {}), Room("R2", 5, {})>>,
           <<Course("C1", "G1", "T1", 2, 1, {})>>,
           <<Mon0, Mon1, Tue0>>, 1, 1)

\* Two courses of one teacher, one of them of duration 2, one room.
Inst2 ==
  Instance(<<Teacher("T1", <<>>, <<>>)>>,
           <<Group("G1", 10), Group("G2", 10)>>,
           <<Room("R1", 30, {"projector"})>>,
           <<Course("C1", "G1", "T1", 1, 2, {"projector"}),
             Course("C2", "G2", "T1", 1, 1, {})>>,
           <<Mon0, Mon1, Tue0>>, 0, 1)

\* One meeting, two fitting rooms, a teacher with an availability list that
\* leaves out mon.0 and who avoids mon.1; a negative weight.
Inst3 ==
  Instance(<<Teacher("T1", <<Mon1, Tue0>>, <<Mon1>>)>>,
           <<Group("G1", 10)>>,
           <<Room("R1", 30, {}), Room("R2", 30, {})>>,
           <<Course("C1", "G1", "T1", 1, 1, {})>>,
           <<Mon0, Mon1, Tue0>>, 2, -1)

Instances == {Inst1, Inst2, Inst3}

\* The assignments an envelope may name in base or pinned: every meeting of a
\* course of the instance with its teacher, and one whose timeslot is unknown.
AssignmentUniverse(inst) ==
  {Assignment(inst.courses[ci].id, inst.timeslots[t], inst.rooms[r].id,
              inst.courses[ci].teacherId) :
     ci \in 1..Len(inst.courses), t \in 1..Len(inst.timeslots), r \in 1..Len(inst.rooms)}
  \cup {Assignment(inst.courses[1].id, Sun9, inst.rooms[1].id, inst.courses[1].teacherId)}

\* The partial pins an envelope may carry, one with an unknown timeslot.
PartialPinUniverse(inst) ==
  {PartialPin(inst.courses[ci].id, t, r) :
     ci \in 1..Len(inst.courses),
     t \in Range(inst.timeslots) \cup {NoneTs},
     r \in Range(Ids(inst.rooms)) \cup {None}}
  \cup {PartialPin(inst.courses[1].id, Sun9, None)}

\* A fixed enumeration of a finite set as a list.
RECURSIVE SetToSeq(_)
SetToSeq(S) ==
  IF S = {} THEN <<>>
  ELSE LET x == CHOOSE y \in S : TRUE IN <<x>> \o SetToSeq(S \ {x})

\* The lists of at most n distinct elements of S (one list per subset).
Lists(S, n) == {SetToSeq(T) : T \in {U \in SUBSET S : Cardinality(U) <= n}}

MaxPins == 2

MaxBase == 1

MaxLocks == 1

\* How many entries pinned, base and partial_pins hold together.
MaxExtras == 2

SolverChoices ==
  {[solver |-> "Heuristic", repairLocalSearch |-> FALSE],
   [solver |-> "Milp", repairLocalSearch |-> FALSE],
   [solver |-> "Milp", repairLocalSearch |-> TRUE]}

SolveEnvelope(inst, p, base, pinned, partial_pins) ==
  [instance |-> inst, solver |-> p.solver,
   repairLocalSearch |-> p.repairLocalSearch,
   base |-> base, pinned |-> pinned, masks |-> <<>>, partial_pins |-> partial_pins,
   seed |-> 0]

\* params.seed
WithSeed(e, seed) == [e EXCEPT !.seed = seed]

\* The envelope with a mask list.
WithMasks(e, masks) == [e EXCEPT !.masks = masks]

NoCandidate == [assignments |-> <<>>, objective |-> 0]

NoScores == compute_soft_scores(Inst1, <<>>)

(***************************************************************************)
(* The dispatcher and the heuristic solver as a process                    *)
(***************************************************************************)
\* The value of `expanded` while apply_masks has not been applied on its own.
NoEnvelope ==
  SolveEnvelope(Inst1, [solver |-> "Heuristic", repairLocalSearch |-> FALSE],
                <<>>, <<>>, <<>>)

\* The masks an envelope given to the dispatcher may carry: the mask that pins
\* every base assignment.
SolveMasks == {LockMask({}, {}, {}, {}, {}, {}, "Full", FALSE)}

MaxMasks == 1

Init ==
  /\ \E inst \in Instances, p \in SolverChoices :
       \E pn \in Lists(AssignmentUniverse(inst), MaxPins),
          b \in Lists(AssignmentUniverse(inst), MaxBase),
          pp \in Lists(PartialPinUniverse(inst), MaxLocks),
          ms \in Lists(SolveMasks, MaxMasks) :
         /\ Len(pn) + Len(b) + Len(pp) + Len(ms) <= MaxExtras
         /\ ms = <<>> \/ b # <<>>    \* masks select from the base
         /\ env = WithMasks(SolveEnvelope(inst, p, b, pn, pp), ms)
  /\ expanded = NoEnvelope
  /\ pc = "start"
  /\ population = <<>>
  /\ iters = 0
  /\ parent = NoCandidate
  /\ result = NoResult
  /\ asg = <<>>
  /\ scores = NoScores
  /\ returned = <<>>
  /\ jobs = <<>>
  /\ task = <<>>
  /\ reply = NoReply

\* DispatchSolver::solve up to the choice of the solver: the envelope is replaced
\* by its mask expansion.
Dispatch ==
  /\ pc = "start"
  /\ env' = apply_masks(env)
  /\ pc' = IF env.solver = "Heuristic" THEN "heur_first" ELSE "milp"
  /\ UNCHANGED <<population, iters, parent, result, asg, scores, expanded, returned, jobs, task, reply>>

\* pop_size = 40.min(10 + courses.len() * 2); the bounds PopCap and PopBase
\* stand for the 40 and the 10 of the source, GaIters for its 300 iterations.
PopCap == 2

PopBase == 1

PopPerCourse == 2

GaIters == 2

pop_size(inst) == Min(PopCap, PopBase + Len(inst.courses) * PopPerCourse)

\* HeurSolver::solve, the first individual: built with the base.
HeurFirst ==
  /\ pc = "heur_first"
  /\ \E o \in randomized_construct_with_pins_and_base(
                env.instance, build_feasible(env.instance),
                env.pinned, env.base, env.partial_pins) :
       population' = IF o.ok THEN <<Candidate(env.instance, o.assignments)>> ELSE <<>>
  /\ pc' = "heur_more"
  /\ UNCHANGED <<env, iters, parent, result, asg, scores, expanded, returned, jobs, task, reply>>

\* The while loop: one more individual without the base, or the break.
HeurMore ==
  /\ pc = "heur_more"
  /\ Len(population) < pop_size(env.instance)
  /\ \E o \in randomized_construct_with_pins_and_base(
                env.instance, build_feasible(env.instance),
                env.pinned, <<>>, env.partial_pins) :
       IF o.ok
         THEN /\ population' = Append(population, Candidate(env.instance, o.assignments))
              /\ pc' = "heur_more"
         ELSE /\ population' = population
              /\ pc' = "heur_sort"
  /\ UNCHANGED <<env, iters, parent, result, asg, scores, expanded, returned, jobs, task, reply>>

\* After the loop: the infeasible return, or the sort of the population.
HeurSort ==
  /\ \/ pc = "heur_sort"
     \/ pc = "heur_more" /\ Len(population) >= pop_size(env.instance)
  /\ IF population = <<>>
       THEN /\ result' = SolveResult("infeasible", 0, <<>>, "ga")
            /\ pc' = "done"
            /\ population' = population
       ELSE /\ population' = sort_population(population)
            /\ pc' = "ga"
            /\ result' = result
  /\ UNCHANGED <<env, iters, parent, asg, scores, expanded, returned, jobs, task, reply>>

\* One iteration of the GA loop.
GaStep ==
  /\ pc = "ga"
  /\ iters < GaIters
  /\ LET winners == {tournament(population, draws) :
                        draws \in [1..TournamentSize -> 1..Len(population)]}
         children == UNION {mutate(env.instance, build_feasible(env.instance),
                                   w.assignments, pinset(env.pinned), env.partial_pins) :
                            w \in winners}
     IN \E ca \in children :
          LET child == Candidate(env.instance, ca)
              worst == population[Len(population)]
          IN population' =
               IF child.objective < worst.objective
                 THEN insert_sorted(SubSeq(population, 1, Len(population) - 1), child)
                 ELSE population
  /\ iters' = iters + 1
  /\ UNCHANGED <<env, pc, parent, result, asg, scores, expanded, returned, jobs, task, reply>>

\* The return of the best individual.
HeurReturn ==
  /\ pc = "ga"
  /\ iters = GaIters
  /\ result' = SolveResult("solved", population[1].objective, population[1].assignments, "ga")
  /\ pc' = "done"
  /\ UNCHANGED <<env, population, iters, parent, asg, scores, expanded, returned, jobs, task, reply>>

\* MilpSolver::solve called by the dispatcher; the repair follows a solved
\* result when repairLocalSearch is set.
MilpSolve ==
  /\ pc = "milp"
  /\ \E r \in solve_with_milp(env) :
       /\ result' = r
       /\ pc' = IF r.status = "solved" /\ env.repairLocalSearch THEN "repair" ELSE "done"
  /\ UNCHANGED <<env, population, iters, parent, asg, scores, expanded, returned, jobs, task, reply>>

\* The bound RepairSteps stands for params.repairSteps.
RepairSteps == 2

\* improve_from up to its loop: the parent is built from the MILP result as the
\* base, or is the base itself when the construction fails.
RepairInit ==
  /\ pc = "repair"
  /\ \E o \in randomized_construct_with_pins_and_base(
                env.instance, build_feasible(env.instance),
                env.pinned, result.assignments, env.partial_pins) :
       parent' = IF o.ok THEN Candidate(env.instance, o.assignments)
                         ELSE Candidate(env.instance, result.assignments)
  /\ iters' = 0
  /\ pc' = "repair_loop"
  /\ UNCHANGED <<env, population, result, asg, scores, expanded, returned, jobs, task, reply>>

\* One step of the loop of improve_from.
RepairStep ==
  /\ pc = "repair_loop"
  /\ iters < RepairSteps
  /\ \E ca \in mutate(env.instance, build_feasible(env.instance), parent.assignments,
                      pinset(env.pinned), env.partial_pins) :
       LET child == Candidate(env.instance, ca)
       IN parent' = IF child.objective < parent.objective THEN child ELSE parent
  /\ iters' = iters + 1
  /\ UNCHANGED <<env, pc, population, result, asg, scores, expanded, returned, jobs, task, reply>>

\* The statistics the dispatcher writes after improve_from.
repair_stats(before, after) ==
  IF after < before
    THEN [method |-> "milp+ga", improved |-> TRUE, repair_steps |-> RepairSteps,
          before_objective |-> before, after_objective |-> after]
  ELSE [method |-> "milp+ga", improved |-> FALSE, repair_steps |-> RepairSteps]

\* A variant of the dispatcher's last step that takes the repaired schedule
\* whatever its objective.
RepairReturnAlways ==
  /\ pc = "repair_loop"
  /\ iters = RepairSteps
  /\ result' = [result EXCEPT !.stats = repair_stats(result.objective, parent.objective),
                              !.assignments = parent.assignments,
                              !.objective = parent.objective]
  /\ pc' = "done"
  /\ UNCHANGED <<env, population, iters, parent, asg, scores, expanded, returned, jobs, task, reply>>

\* The dispatcher takes the repaired schedule when its objective is lower.
RepairReturn ==
  /\ pc = "repair_loop"
  /\ iters = RepairSteps
  /\ result' = IF parent.objective < result.objective
                 THEN [result EXCEPT !.stats = repair_stats(result.objective, parent.objective),
                                     !.assignments = parent.assignments,
                                     !.objective = parent.objective]
                 ELSE [result EXCEPT !.stats = repair_stats(result.objective, parent.objective)]
  /\ pc' = "done"
  /\ UNCHANGED <<env, population, iters, parent, asg, scores, expanded, returned, jobs, task, reply>>

Next ==
  \/ Dispatch
  \/ HeurFirst
  \/ HeurMore
  \/ HeurSort
  \/ GaStep
  \/ HeurReturn
  \/ MilpSolve
  \/ RepairInit
  \/ RepairStep
  \/ RepairReturn

Spec == Init /\ [][Next]_vars

(***************************************************************************)
(* compute_soft_scores on its own: any list of assignments, resolved or    *)
(* not, over an instance with a three-slot day and a one-slot day          *)
(***************************************************************************)
\* Two teachers with avoid sets, a course of duration 1 and one of duration 2.
InstScore ==
  Instance(<<Teacher("T1", <<>>, <<Mon1>>), Teacher("T2", <<>>, <<Mon2>>)>>,
           <<Group("G1", 10), Group("G2", 10)>>,
           <<Room("R1", 30, {})>>,
           <<Course("C1", "G1", "T1", 1, 1, {}), Course("C2", "G2", "T2", 1, 2, {})>>,
           <<Mon0, Mon1, Mon2, Tue0>>, 1, 1)

\* Meetings of both courses at every timeslot, one of an unknown course at an
\* avoided timeslot, one at an unknown timeslot.
ScoreUniverse ==
  {Assignment(c, t, "R1", "T1") : c \in {"C1", "C2"}, t \in Range(InstScore.timeslots)}
    \cup {Assignment("CX", Mon1, "R1", "T1"), Assignment("C1", Sun9, "R1", "T1")}

\* The longest list of assignments scored.
MaxScored == 3

\* Every list of at most n elements of S, repetitions included.
Seqs(S, n) == UNION {[1..k -> S] : k \in 0..n}

InitScore ==
  /\ env = SolveEnvelope(InstScore, [solver |-> "Heuristic", repairLocalSearch |-> FALSE],
                         <<>>, <<>>, <<>>)
  /\ expanded = NoEnvelope
  /\ pc = "score"
  /\ population = <<>>
  /\ iters = 0
  /\ parent = NoCandidate
  /\ result = NoResult
  /\ asg \in Seqs(ScoreUniverse, MaxScored)
  /\ scores = NoScores
  /\ returned = <<>>
  /\ jobs = <<>>
  /\ task = <<>>
  /\ reply = NoReply

Score ==
  /\ pc = "score"
  /\ scores' = compute_soft_scores(env.instance, asg)
  /\ pc' = "scored"
  /\ UNCHANGED <<env, population, iters, parent, result, asg, expanded, returned, jobs, task, reply>>

NextScore == Score

SpecScore == InitScore /\ [][NextScore]_vars

(***************************************************************************)
(* apply_masks on its own: any mask list over base, pinned and partial     *)
(* pins given in any order, with repetitions                               *)
(***************************************************************************)
\* Two courses of one teacher and two groups, two rooms, two days.
InstMask ==
  Instance(<<Teacher("T1", <<>>, <<>>)>>,
           <<Group("G1", 10), Group("G2", 10)>>,
           <<Room("R1", 30, {}), Room("R2", 30, {})>>,
           <<Course("C1", "G1", "T1", 2, 1, {}), Course("C2", "G2", "T1", 1, 1, {})>>,
           <<Mon0, Mon1, Tue0>>, 1, 1)

\* The assignments base and pinned are drawn from.
MaskAssignments ==
  {Assignment("C1", Mon0, "R1", "T1"), Assignment("C1", Mon1, "R1", "T1"),
   Assignment("C2", Tue0, "R2", "T1")}

\* The partial pins the caller supplies: with and without timeslot and room.
MaskPartialPins ==
  {PartialPin("C1", NoneTs, "R1"), PartialPin("C1", Mon0, None),
   PartialPin("C2", Tue0, "R2"), PartialPin("C1", NoneTs, None)}

\* Additive masks of every lock mode and negate masks on the times, days and
\* rooms axes.
MaskUniverse ==
  {LockMask({"C1"}, {}, {}, {}, {}, {}, "Full", FALSE),
   LockMask({}, {"G2"}, {}, {}, {}, {}, "Full", FALSE),
   LockMask({}, {}, {}, {}, {}, {}, "TimeslotOnly", FALSE),
   LockMask({}, {}, {"T1"}, {}, {"mon"}, {}, "RoomOnly", FALSE),
   LockMask({}, {}, {}, {}, {}, {}, "TimeAndRoom", FALSE),
   LockMask({}, {}, {}, {}, {}, {Mon0}, "Full", TRUE),
   LockMask({}, {}, {}, {}, {"sun"}, {}, "Full", TRUE),
   LockMask({}, {}, {}, {"R1"}, {}, {}, "Full", TRUE)}

\* How many entries masks, base, pinned and partial_pins hold together, and
\* how many of them are masks.
MaxMaskEntries == 4
MaxMaskList == 2

InitMasks ==
  /\ \E nm \in 0..MaxMaskList :
       \E nb \in 0..(MaxMaskEntries - nm) :
         \E np \in 0..(MaxMaskEntries - nm - nb) :
           \E nq \in 0..(MaxMaskEntries - nm - nb - np) :
             \E ms \in [1..nm -> MaskUniverse], b \in [1..nb -> MaskAssignments],
                pn \in [1..np -> MaskAssignments], pp \in [1..nq -> MaskPartialPins] :
               env = WithMasks(SolveEnvelope(InstMask,
                                 [solver |-> "Heuristic", repairLocalSearch |-> FALSE],
                                 b, pn, pp), ms)
  /\ expanded = NoEnvelope
  /\ pc = "masks"
  /\ population = <<>>
  /\ iters = 0
  /\ parent = NoCandidate
  /\ result = NoResult
  /\ asg = <<>>
  /\ scores = NoScores
  /\ returned = <<>>
  /\ jobs = <<>>
  /\ task = <<>>
  /\ reply = NoReply

\* apply_masks applied to the envelope.
ApplyMasks ==
  /\ pc = "masks"
  /\ expanded' = apply_masks(env)
  /\ pc' = "masked"
  /\ UNCHANGED <<env, population, iters, parent, result, asg, scores, returned, jobs, task, reply>>

\* apply_masks applied to its own output.
ApplyMasksAgain ==
  /\ pc = "masked"
  /\ expanded' = apply_masks(expanded)
  /\ pc' = "masked_twice"
  /\ UNCHANGED <<env, population, iters, parent, result, asg, scores, returned, jobs, task, reply>>

NextMasks == ApplyMasks \/ ApplyMasksAgain

SpecMasks == InitMasks /\ [][NextMasks]_vars

(***************************************************************************)
(* Greedy fallback (crates/solver-milp/src/lib.rs, solve_greedy)           *)
(***************************************************************************)
\* The clash closure: room, teacher or group occupied at t, or at t + 1 for a
\* meeting of two periods.
greedy_clash(c, r, t, dur2, st) ==
  \/ <<r.id, t>> \in st.occ_room
  \/ dur2 /\ <<r.id, t + 1>> \in st.occ_room
  \/ <<c.teacherId, t>> \in st.occ_teacher
  \/ dur2 /\ <<c.teacherId, t + 1>> \in st.occ_teacher
  \/ <<c.groupId, t>> \in st.occ_group
  \/ dur2 /\ <<c.groupId, t + 1>> \in st.occ_group

\* The push of one assignment and the marking of its periods.
greedy_place(inst, c, r, t, dur2, st) ==
  LET P == IF dur2 THEN {t, t + 1} ELSE {t}
  IN [st EXCEPT
        !.assignments = Append(@, Assignment(c.id, inst.timeslots[t], r.id, c.teacherId)),
        !.occ_room = @ \cup {<<r.id, p>> : p \in P},
        !.occ_teacher = @ \cup {<<c.teacherId, p>> : p \in P},
        !.occ_group = @ \cup {<<c.groupId, p>> : p \in P}]

\* The loop over the rooms at one timeslot: it is left when placed reaches
\* countPerWeek right after a placement, and at the last room.
RECURSIVE greedy_rooms(_, _, _, _, _, _)
greedy_rooms(inst, c, t, ri, placed, st) ==
  IF ri > Len(inst.rooms) THEN [st |-> st, placed |-> placed]
  ELSE LET r == inst.rooms[ri]
           dur2 == c.duration = 2
       IN IF ~room_ok_for_course(inst, r, c) \/ greedy_clash(c, r, t, dur2, st)
            THEN greedy_rooms(inst, c, t, ri + 1, placed, st)
          ELSE IF placed + 1 = c.countPerWeek
            THEN [st |-> greedy_place(inst, c, r, t, dur2, st), placed |-> placed + 1]
          ELSE greedy_rooms(inst, c, t, ri + 1, placed + 1,
                            greedy_place(inst, c, r, t, dur2, st))

\* The loop over the timeslots of one course; abort is the break out of the
\* loop over the courses when the teacher is not found.
RECURSIVE greedy_times(_, _, _, _, _)
greedy_times(inst, c, t, placed, st) ==
  LET dur2 == c.duration = 2
      ti == LastIndex(Ids(inst.teachers), c.teacherId)
  IN IF t > Len(inst.timeslots) \/ (dur2 /\ t + 1 > Len(inst.timeslots))
       THEN [st |-> st, placed |-> placed, abort |-> FALSE]
     ELSE IF ti = 0
       THEN [st |-> [st EXCEPT !.infeasible = TRUE], placed |-> placed, abort |-> TRUE]
     ELSE IF ~is_teacher_available(inst, inst.teachers[ti], t, dur2)
       THEN greedy_times(inst, c, t + 1, placed, st)
     ELSE LET o == greedy_rooms(inst, c, t, 1, placed, st)
          IN greedy_times(inst, c, t + 1, o.placed, o.st)

\* The loop over the courses, with the count check after each course.
RECURSIVE greedy_courses(_, _, _)
greedy_courses(inst, ci, st) ==
  IF ci > Len(inst.courses) THEN st
  ELSE LET c == inst.courses[ci]
           o == greedy_times(inst, c, 1, 0, st)
       IN IF o.abort THEN o.st
          ELSE greedy_courses(inst, ci + 1,
                 [o.st EXCEPT !.infeasible = @ \/ o.placed < c.countPerWeek])

solve_greedy(inst) ==
  LET st == greedy_courses(inst, 1,
              [assignments |-> <<>>, occ_room |-> {}, occ_teacher |-> {},
               occ_group |-> {}, infeasible |-> FALSE])
  IN SolveResult(IF st.infeasible THEN "infeasible" ELSE "solved", 0, st.assignments,
                 "greedy")

\* Bounds of the instances given to the greedy: the number of timeslots and
\* the largest countPerWeek.
MaxGreedySlots == 3
MaxGreedyCount == 2

GreedySlots == <<Mon0, Mon1, Tue0, TS("tue", 1), TS("wed", 0)>>

\* One or two courses of group G1, a teacher with or without listed
\* availability, a course whose teacher is missing, a room too small.
GreedyCourses ==
  {Course("C1", "G1", tid, n, d, {}) :
     tid \in {"T1", "TX"}, n \in 0..MaxGreedyCount, d \in {1, 2}}

GreedyInstances ==
  {Instance(<<Teacher("T1", av, <<>>), Teacher("T2", <<>>, <<>>)>>,
            <<Group("G1", 10), Group("G2", 10)>>,
            <<Room("R1", 30, {}), Room("R2", cap, {})>>,
            cs, SubSeq(GreedySlots, 1, n), 1, 1) :
     av \in {<<>>, <<Mon0>>, <<Mon0, Mon1>>},
     cap \in {5, 30},
     n \in 1..MaxGreedySlots,
     cs \in {<<c>> : c \in GreedyCourses}
              \cup {<<c, Course("C2", g, "T2", 1, 1, {})>> :
                      c \in GreedyCourses, g \in {"G1", "G2"}}}

InitGreedy ==
  /\ \E inst \in GreedyInstances :
       env = SolveEnvelope(inst, [solver |-> "Milp", repairLocalSearch |-> FALSE],
                           <<>>, <<>>, <<>>)
  /\ pc = "greedy"
  /\ result = NoResult
  /\ expanded = NoEnvelope
  /\ population = <<>>
  /\ iters = 0
  /\ parent = NoCandidate
  /\ asg = <<>>
  /\ scores = NoScores
  /\ returned = <<>>
  /\ jobs = <<>>
  /\ task = <<>>
  /\ reply = NoReply

\* MilpSolver::solve on its fallback path.
Greedy ==
  /\ pc = "greedy"
  /\ result' = solve_greedy(env.instance)
  /\ pc' = "greedy_done"
  /\ UNCHANGED <<env, population, iters, parent, asg, scores, expanded, returned, jobs, task, reply>>

NextGreedy == Greedy

SpecGreedy == InitGreedy /\ [][NextGreedy]_vars

(***************************************************************************)
(* HeurSolver::solve as a function of the envelope and its seed            *)
(***************************************************************************)
\* ChaCha8Rng::seed_from_u64(seed): the k-th draw is a function of the seed
\* and of k alone.  The cipher is not modelled; this generator stands for it.
DrawMod == 5
rng_draw(seed, k) == ((seed + 1) * (k + 2) + seed * seed) % DrawMod

\* A random choice among the outcomes S of one randomized operation, made
\* with one draw.
rng_pick(S, d) == SetToSeq(S)[(d % Cardinality(S)) + 1]

\* The orders in which an iteration over the HashMap day_slots can visit the
\* days: the hasher is keyed anew for every map.
DayOrders(inst) ==
  {ord \in [1..Cardinality(Days(inst)) -> Days(inst)] :
     \A i, j \in 1..Cardinality(Days(inst)) : i # j => ord[i] # ord[j]}

\* A variant of the loop below that stops after the first day it visits.
RECURSIVE agent_windows_first_day(_, _, _, _, _)
agent_windows_first_day(inst, occ, id, order, i) ==
  IF i > Len(order) THEN 0 ELSE day_windows(inst, occ, id, order[i])

\* agent_windows: total += sum_o - sum_adj, day after day in the order of the
\* iteration.
RECURSIVE agent_windows_in(_, _, _, _, _)
agent_windows_in(inst, occ, id, order, i) ==
  IF i > Len(order) THEN 0
  ELSE day_windows(inst, occ, id, order[i]) + agent_windows_in(inst, occ, id, order, i + 1)

\* Candidate::evaluate with the days visited in the given order.
Candidate_in(inst, assignments, order) ==
  LET ot == occ_teacher(inst, assignments)
      og == occ_group(inst, assignments)
      tids == Range(Ids(inst.teachers))
      gids == Range(Ids(inst.groups))
      total == SetSum(tids, [t \in tids |-> agent_windows_in(inst, ot, t, order, 1)])
                 + SetSum(gids, [g \in gids |-> agent_windows_in(inst, og, g, order, 1)])
  IN [assignments |-> assignments,
      objective |-> inst.w_unpref * unpref_loop(inst, assignments, 1)
                      + inst.w_windows * total]

\* The while loop that fills the population; k is the position in the stream.
RECURSIVE seeded_fill(_, _, _, _)
seeded_fill(e, order, pop, k) ==
  IF Len(pop) >= pop_size(e.instance) THEN [pop |-> pop, k |-> k]
  ELSE LET o == rng_pick(randomized_construct_with_pins_and_base(
                           e.instance, build_feasible(e.instance),
                           e.pinned, <<>>, e.partial_pins),
                         rng_draw(e.seed, k))
       IN IF o.ok
            THEN seeded_fill(e, order,
                             Append(pop, Candidate_in(e.instance, o.assignments, order)), k + 1)
          ELSE [pop |-> pop, k |-> k + 1]

\* The GA loop: three draws for the tournament, one for the mutation.
RECURSIVE seeded_ga(_, _, _, _, _)
seeded_ga(e, order, pop, it, k) ==
  IF it >= GaIters THEN pop
  ELSE LET draws == [j \in 1..TournamentSize |->
                       (rng_draw(e.seed, k + j - 1) % Len(pop)) + 1]
           w == tournament(pop, draws)
           child == Candidate_in(e.instance,
                      rng_pick(mutate(e.instance, build_feasible(e.instance), w.assignments,
                                      pinset(e.pinned), e.partial_pins),
                               rng_draw(e.seed, k + TournamentSize)),
                      order)
           worst == pop[Len(pop)]
       IN seeded_ga(e, order,
                    IF child.objective < worst.objective
                      THEN insert_sorted(SubSeq(pop, 1, Len(pop) - 1), child)
                      ELSE pop,
                    it + 1, k + TournamentSize + 1)

\* HeurSolver::solve from the seeding of the generator to the return.
heur_solve(e, order) ==
  LET o == rng_pick(randomized_construct_with_pins_and_base(
                      e.instance, build_feasible(e.instance),
                      e.pinned, e.base, e.partial_pins),
                    rng_draw(e.seed, 1))
      pop0 == IF o.ok THEN <<Candidate_in(e.instance, o.assignments, order)>> ELSE <<>>
      filled == seeded_fill(e, order, pop0, 2)
      pop == seeded_ga(e, order, sort_population(filled.pop), 0, filled.k)
  IN IF filled.pop = <<>> THEN SolveResult("infeasible", 0, <<>>, "ga")
     ELSE SolveResult("solved", pop[1].objective, pop[1].assignments, "ga")

\* Bounds of the envelopes solved twice: the largest seed and the number of
\* pins, base entries and partial pins together.
MaxSeed == 2
MaxSeedExtras == 1

InitSeed ==
  /\ \E inst \in Instances, seed \in 0..MaxSeed :
       \E pn \in Lists(AssignmentUniverse(inst), MaxSeedExtras),
          b \in Lists(AssignmentUniverse(inst), MaxSeedExtras),
          pp \in Lists(PartialPinUniverse(inst), MaxSeedExtras) :
         /\ Len(pn) + Len(b) + Len(pp) <= MaxSeedExtras
         /\ env = WithSeed(SolveEnvelope(inst,
                             [solver |-> "Heuristic", repairLocalSearch |-> FALSE],
                             b, pn, pp), seed)
  /\ returned = <<>>
  /\ pc = "first_run"
  /\ expanded = NoEnvelope
  /\ population = <<>>
  /\ iters = 0
  /\ parent = NoCandidate
  /\ result = NoResult
  /\ asg = <<>>
  /\ scores = NoScores
  /\ jobs = <<>>
  /\ task = <<>>
  /\ reply = NoReply

\* One run of HeurSolver::solve on the envelope; each run has hash maps of its own.
SeedSolve ==
  /\ pc \in {"first_run", "second_run"}
  /\ \E order \in DayOrders(env.instance) :
       returned' = Append(returned, heur_solve(env, order))
  /\ pc' = IF pc = "first_run" THEN "second_run" ELSE "both_run"
  /\ UNCHANGED <<env, population, iters, parent, result, asg, scores, expanded, jobs, task, reply>>

NextSeed == SeedSolve

SpecSeed == InitSeed /\ [][NextSeed]_vars

(***************************************************************************)
(* Job registry (crates/jobs/src/lib.rs) and its routes                    *)
(* (crates/api/src/routes/jobs.rs)                                         *)
(***************************************************************************)
\* jobs::JobStatus.  The registry never constructs the variant Infeasible.
Queued == [tag |-> "Queued"]

Running == [tag |-> "Running"]

Solved(res) == [tag |-> "Solved", result |-> res]

Infeasible == [tag |-> "Infeasible"]

Failed(msg) == [tag |-> "Failed", message |-> msg]

\* HashMap::insert: the entry of key k is created or overwritten.
map_insert(m, k, v) == [x \in DOMAIN m \cup {k} |-> IF x = k THEN v ELSE m[x]]

\* The ends of Solver::solve, an anyhow::Result<SolveResult>: Ok with a result
\* of either status, or Err.
Ok(res) == [ok |-> TRUE, value |-> res]

Err(e) == [ok |-> FALSE, error |-> e]

JobResults ==
  {SolveResult("solved", 1, <<>>, "milp"), SolveResult("infeasible", 0, <<>>, "ga")}

JobErrors == {"solver failed"}

\* The task's `match` has not received the end of the call yet.
NoOutcome == [ok |-> FALSE, error |-> ""]

SolveOutcomes == {Ok(r) : r \in JobResults} \cup {Err(e) : e \in JobErrors}

\* A variant of the task's last write that records an infeasible result with
\* the variant Infeasible.
finish_by_result_status(o) ==
  IF o.ok
    THEN IF o.value.status = "infeasible" THEN Infeasible ELSE Solved(o.value)
  ELSE Failed(o.error)

\* The status the spawned task writes for the end of the solver call:
\* Ok(res) => Solved { result: res }, Err(e) => Failed { message: e.to_string() }.
finish(o) == IF o.ok THEN Solved(o.value) ELSE Failed(o.error)

\* InMemJobs::get: Some(status) or None.
NoneStatus == [tag |-> "None"]

get(id) == IF id \in DOMAIN jobs THEN jobs[id] ELSE NoneStatus

\* serde_json::to_value of a JobStatus, an internally tagged enum
\* (#[serde(tag = "status")]).
to_value(s) ==
  CASE s.tag = "Solved" -> [status |-> "Solved", result |-> s.result]
    [] s.tag = "Failed" -> [status |-> "Failed", message |-> s.message]
    [] OTHER -> [status |-> s.tag]

\* routes::jobs::status
status_route(id) ==
  LET st == get(id)
  IN IF st = NoneStatus THEN [status |-> "not_found"] ELSE to_value(st)

\* A variant of the result route that answers for a finished job of either
\* terminal status.
result_route_terminal(id) ==
  LET st == get(id)
  IN CASE st.tag = "Solved" -> st.result
       [] st.tag = "Failed" -> [status |-> "failed"]
       [] st = NoneStatus -> [status |-> "not_found"]
       [] OTHER -> [status |-> "not_ready"]

\* routes::jobs::result
result_route(id) ==
  LET st == get(id)
  IN CASE st.tag = "Solved" -> st.result
       [] st = NoneStatus -> [status |-> "not_found"]
       [] OTHER -> [status |-> "not_ready"]

\* The job ids (Uuid::new_v4 yields an id not used before), the ids a poll
\* can ask for (one of them is never enqueued), and the number of polls.
MaxJobs == 2

MaxPolls == 2

JobIds == 1..MaxJobs

PollIds == 1..(MaxJobs + 1)

InitJobs ==
  /\ jobs = <<>>
  /\ task = <<>>
  /\ reply = NoReply
  /\ env = NoEnvelope
  /\ pc = "jobs"
  /\ result = NoResult
  /\ expanded = NoEnvelope
  /\ population = <<>>
  /\ iters = 0
  /\ parent = NoCandidate
  /\ asg = <<>>
  /\ scores = NoScores
  /\ returned = <<>>

\* InMemJobs::enqueue: the id is inserted as Queued, the task is spawned and
\* the id is returned.
Enqueue ==
  /\ \E id \in JobIds \ DOMAIN jobs :
       /\ jobs' = map_insert(jobs, id, Queued)
       /\ task' = map_insert(task, id, [pc |-> "spawned", outcome |-> NoOutcome])
  /\ UNCHANGED <<env, pc, population, iters, parent, result, asg, scores, expanded, returned, reply>>

\* The spawned task, first block: its id is written as Running.
TaskRunning(id) ==
  /\ id \in DOMAIN task
  /\ task[id].pc = "spawned"
  /\ jobs' = map_insert(jobs, id, Running)
  /\ task' = [task EXCEPT ![id].pc = "solving"]
  /\ UNCHANGED <<env, pc, population, iters, parent, result, asg, scores, expanded, returned, reply>>

\* The solver call returns and the task writes the status of its end.
TaskFinish(id) ==
  /\ id \in DOMAIN task
  /\ task[id].pc = "solving"
  /\ \E o \in SolveOutcomes :
       /\ jobs' = map_insert(jobs, id, finish(o))
       /\ task' = [task EXCEPT ![id] = [pc |-> "finished", outcome |-> o]]
  /\ UNCHANGED <<env, pc, population, iters, parent, result, asg, scores, expanded, returned, reply>>

\* The solver call panics: the task unwinds and is dropped by the runtime
\* with no further write to the registry.
TaskAbort(id) ==
  /\ id \in DOMAIN task
  /\ task[id].pc = "solving"
  /\ task' = [task EXCEPT ![id].pc = "aborted"]
  /\ UNCHANGED <<env, pc, population, iters, parent, result, asg, scores, expanded, returned, jobs, reply>>

\* GET /v1/jobs/{id}
PollStatus ==
  /\ reply.n < MaxPolls
  /\ \E id \in PollIds :
       reply' = [n |-> reply.n + 1, route |-> "status", id |-> id, body |-> status_route(id)]
  /\ UNCHANGED <<env, pc, population, iters, parent, result, asg, scores, expanded, returned, jobs, task>>

\* GET /v1/jobs/{id}/result
PollResult ==
  /\ reply.n < MaxPolls
  /\ \E id \in PollIds :
       reply' = [n |-> reply.n + 1, route |-> "result", id |-> id, body |-> result_route(id)]
  /\ UNCHANGED <<env, pc, population, iters, parent, result, asg, scores, expanded, returned, jobs, task>>

\* One step of the task of job id.
TaskStep(id) == TaskRunning(id) \/ TaskFinish(id) \/ TaskAbort(id)

NextJobs ==
  \/ Enqueue
  \/ \E id \in JobIds : TaskRunning(id)
  \/ \E id \in JobIds : TaskFinish(id)
  \/ \E id \in JobIds : TaskAbort(id)
  \/ PollStatus
  \/ PollResult

SpecJobs == InitJobs /\ [][NextJobs]_vars

\* The runtime schedules every spawned task: a task that can take a step
\* eventually takes one.
SpecJobsFair == SpecJobs /\ \A id \in JobIds : WF_vars(TaskStep(id))

(***************************************************************************)
(* Instance validator (crates/core/src/lib.rs, validate)                   *)
(***************************************************************************)
\* A timeslot id is a string, here the sequence of its characters.
DayNames ==
  {<<"m", "o", "n">>, <<"t", "u", "e">>, <<"w", "e", "d">>, <<"t", "h", "u">>,
   <<"f", "r", "i">>, <<"s", "a", "t">>, <<"s", "u", "n">>}

DigitChars == <<"0", "1", "2", "3", "4", "5", "6", "7", "8", "9">>

\* u32::MAX = 4294967295, by its decimal digits.
U32MaxDigits == <<4, 2, 9, 4, 9, 6, 7, 2, 9, 5>>

\* str::split(sep): the pieces between the separators, in order.
RECURSIVE split(_, _)
split(s, sep) ==
  LET hit == FirstIndex(s, sep)
  IN IF hit = 0 THEN <<s>>
     ELSE <<SubSeq(s, 1, hit - 1)>> \o split(SubSeq(s, hit + 1, Len(s)), sep)

\* The digits of s below or equal to those of m, most significant first.
RECURSIVE digits_le(_, _)
digits_le(s, m) ==
  IF s = <<>> THEN TRUE
  ELSE IF Head(s) # Head(m) THEN Head(s) < Head(m)
  ELSE digits_le(Tail(s), Tail(m))

RECURSIVE strip_zeros(_)
strip_zeros(d) == IF d # <<>> /\ Head(d) = 0 THEN strip_zeros(Tail(d)) ELSE d

\* str::parse::<u32>().is_ok(): an optional "+", then one or more decimal
\* digits whose value does not exceed u32::MAX.
parse_u32_is_ok(s) ==
  LET body == IF s # <<>> /\ Head(s) = "+" THEN Tail(s) ELSE s
      digits == [i \in 1..Len(body) |-> FirstIndex(DigitChars, body[i]) - 1]
      sig == strip_zeros(digits)
  IN /\ body # <<>>
     /\ \A i \in 1..Len(body) : FirstIndex(DigitChars, body[i]) # 0
     /\ \/ Len(sig) < Len(U32MaxDigits)
        \/ Len(sig) = Len(U32MaxDigits) /\ digits_le(sig, U32MaxDigits)

\* TimeslotId::is_valid_format
is_valid_format(t) ==
  LET parts == split(t, ".")
  IN /\ Len(parts) = 2
     /\ parts[1] \in DayNames
     /\ parse_u32_is_ok(parts[2])

\* A diagnostic: the format string's kind and its arguments.
Diag(kind, args) == [kind |-> kind, args |-> args]

\* A literal piece of text.
Text(s) == Diag(s, <<>>)

\* The concatenation of the lists f[1], ..., f[n].
RECURSIVE concat(_, _)
concat(f, n) == IF n = 0 THEN <<>> ELSE concat(f, n - 1) \o f[n]

\* chk_unique: one diagnostic for every id already seen.
chk_unique(name, ids) ==
  concat([i \in 1..Len(ids) |->
            IF \E j \in 1..(i - 1) : ids[j] = ids[i]
              THEN <<Diag("duplicate id", <<name, ids[i]>>)>> ELSE <<>>],
         Len(ids))

\* A variant of the room test of a course that ignores the equipment.
any_room_by_capacity(inst, c) ==
  LET gs == {i \in 1..Len(inst.groups) : inst.groups[i].id = c.groupId}
      size == IF gs = {} THEN 0
              ELSE inst.groups[CHOOSE i \in gs : \A j \in gs : i <= j].size
  IN \E i \in 1..Len(inst.rooms) : ~(inst.rooms[i].capacity < size)

\* The loop 'rooms of a course: some room is not smaller than the group
\* (size 0 for a missing group) and holds every needed equipment.
any_room_ok(inst, c) ==
  LET gs == {i \in 1..Len(inst.groups) : inst.groups[i].id = c.groupId}
      size == IF gs = {} THEN 0
              ELSE inst.groups[CHOOSE i \in gs : \A j \in gs : i <= j].size
  IN \E i \in 1..Len(inst.rooms) :
       /\ ~(inst.rooms[i].capacity < size)
       /\ \A need \in c.needs : need \in inst.rooms[i].equip

\* The diagnostics of one course, in the order of the code.
course_errors(inst, c) ==
  (IF c.teacherId \notin {t.id : t \in Range(inst.teachers)}
     THEN <<Diag("course references missing teacher", <<c.id, c.teacherId>>)>> ELSE <<>>)
  \o (IF c.groupId \notin {g.id : g \in Range(inst.groups)}
        THEN <<Diag("course references missing group", <<c.id, c.groupId>>)>> ELSE <<>>)
  \o (IF c.countPerWeek = 0
        THEN <<Diag("course has countPerWeek=0", <<c.id>>)>> ELSE <<>>)
  \o (IF ~(c.duration = 1 \/ c.duration = 2)
        THEN <<Diag("course has invalid duration", <<c.id, c.duration>>)>> ELSE <<>>)
  \o (IF ~any_room_ok(inst, c)
        THEN <<Diag("course is unschedulable: no suitable room", <<c.id>>)>> ELSE <<>>)

\* The diagnostics of one teacher: one for every availability entry that is
\* not a timeslot of the instance.
teacher_errors(inst, t) ==
  concat([i \in 1..Len(t.available) |->
            IF t.available[i] \notin Range(inst.timeslots)
              THEN <<Diag("teacher has unavailable slot", <<t.id, t.available[i]>>)>>
            ELSE <<>>],
         Len(t.available))

\* The list `errors` at the end of validate.
validate_errors(inst) ==
  (IF inst.timeslots = <<>> THEN <<Diag("timeslots is empty", <<>>)>> ELSE <<>>)
  \o concat([i \in 1..Len(inst.timeslots) |->
               IF ~is_valid_format(inst.timeslots[i])
                 THEN <<Diag("timeslot has invalid format", <<inst.timeslots[i]>>)>>
               ELSE <<>>],
            Len(inst.timeslots))
  \o chk_unique("teacher", [i \in 1..Len(inst.teachers) |-> inst.teachers[i].id])
  \o chk_unique("group", [i \in 1..Len(inst.groups) |-> inst.groups[i].id])
  \o chk_unique("room", [i \in 1..Len(inst.rooms) |-> inst.rooms[i].id])
  \o chk_unique("course", [i \in 1..Len(inst.courses) |-> inst.courses[i].id])
  \o concat([i \in 1..Len(inst.teachers) |-> teacher_errors(inst, inst.teachers[i])],
            Len(inst.teachers))
  \o concat([i \in 1..Len(inst.courses) |-> course_errors(inst, inst.courses[i])],
            Len(inst.courses))

\* Vec<String>::join(sep): the entries with the separator between neighbours.
RECURSIVE join(_, _)
join(errors, sep) ==
  IF Len(errors) <= 1 THEN errors
  ELSE <<Head(errors), sep>> \o join(Tail(errors), sep)

\* validate: Ok(()) for an empty list, else Err(Msg(errors.join("; "))).
validate(inst) ==
  LET errors == validate_errors(inst)
  IN IF errors = <<>> THEN [ok |-> TRUE, message |-> <<>>]
     ELSE [ok |-> FALSE, message |-> join(errors, Text("; "))]

\* Timeslot ids for the validator: "mon.0", "tue.1", "mon.+1",
\* "mon.4294967295", "mon.4294967296", "mon" and "Mon.0".
SlotMon0 == <<"m", "o", "n", ".", "0">>

SlotTue1 == <<"t", "u", "e", ".", "1">>

SlotPlus1 == <<"m", "o", "n", ".", "+", "1">>

SlotMaxU32 == <<"m", "o", "n", ".", "4", "2", "9", "4", "9", "6", "7", "2", "9", "5">>

SlotOverU32 == <<"m", "o", "n", ".", "4", "2", "9", "4", "9", "6", "7", "2", "9", "6">>

SlotNoIndex == <<"m", "o", "n">>

SlotUpper == <<"M", "o", "n", ".", "0">>

ValidateSlots ==
  {SlotMon0, SlotTue1, SlotPlus1, SlotMaxU32, SlotOverU32, SlotNoIndex, SlotUpper}

\* Teachers, groups, rooms and courses for the validator; some share an id.
ValidateTeachers ==
  {Teacher("T1", <<SlotMon0>>, <<>>), Teacher("T1", <<SlotTue1, SlotMon0>>, <<>>)}

ValidateGroups == {Group("G1", 10), Group("G2", 40), Group("G1", 40)}

ValidateRooms == {Room("R1", 30, {}), Room("R2", 50, {"projector"}), Room("R1", 5, {})}

ValidateCourses ==
  {Course("C1", "G1", "T1", 1, 1, {}), Course("C2", "G2", "T1", 1, 2, {"projector"}),
   Course("C1", "G1", "T1", 0, 3, {}), Course("C3", "G9", "T9", 2, 1, {})}

MaxSlotList == 1

MaxValidated == 2

\* The instances validate is applied to.
ValidateInstances ==
  {Instance(ts, gs, rs, cs, sl, 1, 1) :
     ts \in Lists(ValidateTeachers, MaxValidated),
     gs \in Lists(ValidateGroups, MaxValidated),
     rs \in Lists(ValidateRooms, MaxValidated),
     cs \in Lists(ValidateCourses, MaxValidated),
     sl \in Lists(ValidateSlots, MaxSlotList)}

InitValidate ==
  /\ \E inst \in ValidateInstances :
       env = SolveEnvelope(inst, [solver |-> "Heuristic", repairLocalSearch |-> FALSE],
                           <<>>, <<>>, <<>>)
  /\ pc = "validate"
  /\ result = NoResult
  /\ expanded = NoEnvelope
  /\ population = <<>>
  /\ iters = 0
  /\ parent = NoCandidate
  /\ asg = <<>>
  /\ scores = NoScores
  /\ returned = <<>>
  /\ jobs = <<>>
  /\ task = <<>>
  /\ reply = NoReply

\* POST /v1/validate: validate on the instance.
Validate ==
  /\ pc = "validate"
  /\ result' = validate(env.instance)
  /\ pc' = "validated"
  /\ UNCHANGED <<env, population, iters, parent, asg, scores, expanded, returned, jobs, task, reply>>

NextValidate == Validate

SpecValidate == InitValidate /\ [][NextValidate]_vars

(***************************************************************************)
(* One mutation step on a constructed parent                               *)
(***************************************************************************)
\* One course of a single two-period meeting, one room, a day of two
\* periods followed by a day of one.
Inst4 ==
  Instance(<<Teacher("T1", <<>>, <<>>)>>,
           <<Group("G1", 10)>>,
           <<Room("R1", 30, {})>>,
           <<Course("C1", "G1", "T1", 1, 2, {})>>,
           <<Mon0, Mon1, Tue0>>, 1, 1)

MutateInstances == {Inst1, Inst2, Inst3, Inst4}

MaxMutatePins == 1

MaxMutateLocks == 1

InitMutate ==
  /\ \E inst \in MutateInstances :
       \E pn \in Lists(AssignmentUniverse(inst), MaxMutatePins),
          pp \in Lists(PartialPinUniverse(inst), MaxMutateLocks) :
         env = SolveEnvelope(inst, [solver |-> "Heuristic", repairLocalSearch |-> FALSE],
                             <<>>, pn, pp)
  /\ pc = "construct"
  /\ result = NoResult
  /\ expanded = NoEnvelope
  /\ population = <<>>
  /\ iters = 0
  /\ parent = NoCandidate
  /\ asg = <<>>
  /\ scores = NoScores
  /\ returned = <<>>
  /\ jobs = <<>>
  /\ task = <<>>
  /\ reply = NoReply

\* An individual as HeurSolver::solve constructs it for its population.
MutateConstruct ==
  /\ pc = "construct"
  /\ \E o \in randomized_construct_with_pins_and_base(
                env.instance, build_feasible(env.instance),
                env.pinned, <<>>, env.partial_pins) :
       IF o.ok
         THEN /\ parent' = Candidate(env.instance, o.assignments)
              /\ pc' = "mutate"
         ELSE /\ parent' = parent
              /\ pc' = "no_parent"
  /\ UNCHANGED <<env, population, iters, result, asg, scores, expanded, returned, jobs, task, reply>>

\* mutate on the individual, with the lock sets of HeurSolver::solve.
MutateStep ==
  /\ pc = "mutate"
  /\ \E ca \in mutate(env.instance, build_feasible(env.instance), parent.assignments,
                      pinset(env.pinned), env.partial_pins) :
       population' = <<Candidate(env.instance, ca)>>
  /\ pc' = "mutated"
  /\ UNCHANGED <<env, iters, parent, result, asg, scores, expanded, returned, jobs, task, reply>>

NextMutate ==
  \/ MutateConstruct
  \/ MutateStep

SpecMutate == InitMutate /\ [][NextMutate]_vars

(***************************************************************************)
(* The states in which a solver has reported "solved"                      *)
(***************************************************************************)
\* HeurSolver::solve has returned a solved result.
HeurSolved == env.solver = "Heuristic" /\ pc = "done" /\ result.status = "solved"

\* MilpSolver::solve has returned a solved result, not yet touched by the repair.
MilpSolved ==
  /\ env.solver = "Milp"
  /\ result.status = "solved"
  /\ pc = "repair" \/ (pc = "done" /\ ~env.repairLocalSearch)

\* DispatchSolver::solve has returned a solved result.
DispatchSolved == pc = "done" /\ result.status = "solved"

\* Every course has exactly countPerWeek assignments that reference it.
CountsMet(inst, assignments) ==
  \A ci \in 1..Len(inst.courses) :
    CountCourse(assignments, inst.courses[ci].id) = inst.courses[ci].countPerWeek

\* The periods a meeting occupies: its start t, and t + 1 for duration 2.
MeetingPeriods(inst, a) ==
  LET t == idx_ts(inst, a.timeslot)
  IN IF inst.courses[idx_course(inst, a.courseId)].duration = 2 THEN {t, t + 1} ELSE {t}

\* No room, teacher or group is used by two meetings in one period.
NoClash(inst, assignments) ==
  \A i, j \in 1..Len(assignments) :
    (i < j /\ MeetingPeriods(inst, assignments[i]) \cap MeetingPeriods(inst, assignments[j]) # {})
      => LET ci == inst.courses[idx_course(inst, assignments[i].courseId)]
             cj == inst.courses[idx_course(inst, assignments[j].courseId)]
         IN /\ assignments[i].roomId # assignments[j].roomId
            /\ ci.teacherId # cj.teacherId
            /\ ci.groupId # cj.groupId

\* One assignment satisfies the hard feasibility rules: its ids resolve, its room
\* holds the group and has the equipment, its teacher is available.
HardFeasible(inst, a) ==
  /\ idx_course(inst, a.courseId) # 0
  /\ idx_ts(inst, a.timeslot) # 0
  /\ idx_room(inst, a.roomId) # 0
  /\ LET c == inst.courses[idx_course(inst, a.courseId)]
     IN /\ teacher_index(inst, c.teacherId) # 0
        /\ room_ok_for_course(inst, inst.rooms[idx_room(inst, a.roomId)], c)
        /\ is_teacher_available(inst, inst.teachers[teacher_index(inst, c.teacherId)],
                                idx_ts(inst, a.timeslot), c.duration = 2)

\* An assignment matches a partial pin on the axes the pin specifies.
PinMatched(l, a) ==
  /\ a.courseId = l.courseId
  /\ l.timeslot = NoneTs \/ a.timeslot = l.timeslot
  /\ l.roomId = None \/ a.roomId = l.roomId

(***************************************************************************)
(* Claims                                                                  *)
(***************************************************************************)
\* C1: when the heuristic solver reports "solved", every course has exactly
\* countPerWeek assignments, whatever pins, base and partial pins were given;
\* every individual of the population, before and after any number of mutation
\* steps, has them too.
C1_HeurCourseCounts ==
  env.solver = "Heuristic" =>
    /\ \A i \in 1..Len(population) : CountsMet(env.instance, population[i].assignments)
    /\ HeurSolved => CountsMet(env.instance, result.assignments)

C1_Witness ==
  /\ HeurSolved
  /\ iters = GaIters
  /\ env.pinned # <<>>
  /\ env.partial_pins # <<>>

\* C2: when the MILP solver reports "solved", the pins together with the
\* extracted starts give every course exactly countPerWeek assignments.
C2_MilpCourseCounts == MilpSolved => CountsMet(env.instance, result.assignments)

\* C3: when the heuristic solver reports "solved", no room, teacher or group is
\* used by two meetings in one period, a meeting of duration 2 occupying t and
\* t + 1; every individual of the population, mutated or not, is clash-free.
C3_HeurNoClash ==
  env.solver = "Heuristic" =>
    /\ \A i \in 1..Len(population) : NoClash(env.instance, population[i].assignments)
    /\ HeurSolved => NoClash(env.instance, result.assignments)

C3_Witness ==
  /\ HeurSolved
  /\ iters = GaIters
  /\ \E ci \in 1..Len(env.instance.courses) : env.instance.courses[ci].duration = 2
  /\ Len(result.assignments) >= 2

\* C4: when the MILP solver reports "solved", the full list, pins followed by
\* extracted starts, is clash-free; in particular no two pins overlap.
C4_MilpNoClash == MilpSolved => NoClash(env.instance, result.assignments)

\* C5: when either solver reports "solved", every pinned entry of the envelope
\* appears verbatim in the result.
C5_PinsVerbatim ==
  DispatchSolved =>
    \A i \in 1..Len(env.pinned) : env.pinned[i] \in Range(result.assignments)

\* C6: when either solver reports "solved", every partial pin has an assignment
\* that matches it on the axes it specifies.
C6_PartialPinsMatched ==
  DispatchSolved =>
    \A i \in 1..Len(env.partial_pins) :
      \E j \in 1..Len(result.assignments) :
        PinMatched(env.partial_pins[i], result.assignments[j])

\* C7: when either solver reports "solved", every assignment of the result,
\* those taken from pinned and base included, uses a room that holds the group
\* and has the equipment, at a time when the teacher is available.
C7_HardFeasible ==
  DispatchSolved =>
    \A j \in 1..Len(result.assignments) : HardFeasible(env.instance, result.assignments[j])

\* C8: when the dispatcher reports "solved", the objective of the result is
\* w_unpref * unpreferred_meetings + w_windows * windows_total as
\* compute_soft_scores recomputes it from the assignments of the result.
C8_ObjectiveRecomputed ==
  DispatchSolved =>
    result.objective = compute_soft_scores(env.instance, result.assignments).objective

\* The periods of agent `id` that some scored assignment occupies; TeacherOf is
\* TRUE for the teachers, FALSE for the groups.
OccupiedPeriods(inst, assignments, id, TeacherOf) ==
  {k \in 1..Len(inst.timeslots) :
     \E i \in 1..Len(assignments) :
       /\ Scored(inst, assignments[i])
       /\ LET c == inst.courses[course_by_id(inst, assignments[i].courseId)]
          IN id = (IF TeacherOf THEN c.teacherId ELSE c.groupId)
       /\ k \in ScoredPeriods(inst, assignments[i])}

\* The maximal runs of consecutive occupied slots, counted day by day: an
\* occupied slot starts a run when the slot before it in its day is not occupied.
RunsOf(inst, S) ==
  Cardinality({k \in S :
     ~\E j \in S :
        /\ day_of(inst.timeslots[j]) = day_of(inst.timeslots[k])
        /\ day_index(inst.timeslots[j]) < day_index(inst.timeslots[k])
        /\ ~\E m \in 1..Len(inst.timeslots) :
              /\ day_of(inst.timeslots[m]) = day_of(inst.timeslots[k])
              /\ day_index(inst.timeslots[j]) < day_index(inst.timeslots[m])
              /\ day_index(inst.timeslots[m]) < day_index(inst.timeslots[k])})

\* C9: the window count of every teacher and group is the sum over the days of
\* (occupied slots - adjacent occupied pairs), the number of runs of occupied
\* slots: {mon.0, mon.2} gives 2, {mon.0, mon.1} gives 1, {mon.0} gives 1,
\* {mon.0, mon.1, mon.2} gives 1; windows_total is the sum over all teachers and
\* groups.
C9_WindowsAreRuns ==
  pc = "scored" =>
    LET inst == env.instance
        tids == Range(Ids(inst.teachers))
        gids == Range(Ids(inst.groups))
        occT == [t \in tids |-> OccupiedPeriods(inst, asg, t, TRUE)]
        occG == [g \in gids |-> OccupiedPeriods(inst, asg, g, FALSE)]
    IN /\ \A t \in tids : scores.windows_teachers[t] = RunsOf(inst, occT[t])
       /\ \A g \in gids : scores.windows_groups[g] = RunsOf(inst, occG[g])
       /\ scores.windows_total =
            SetSum(tids, scores.windows_teachers) + SetSum(gids, scores.windows_groups)
       /\ \A t \in tids :
            /\ occT[t] = {1, 3} => scores.windows_teachers[t] = 2
            /\ occT[t] = {1, 2} => scores.windows_teachers[t] = 1
            /\ occT[t] = {1} => scores.windows_teachers[t] = 1
            /\ occT[t] = {1, 2, 3} => scores.windows_teachers[t] = 1

C9_Witness ==
  /\ pc = "scored"
  /\ OccupiedPeriods(env.instance, asg, "T1", TRUE) = {1, 3}
  /\ OccupiedPeriods(env.instance, asg, "T2", TRUE) = {3, 4}
  /\ scores.windows_teachers["T1"] = 2
  /\ scores.windows_teachers["T2"] = 2

C11_Idempotent ==
  pc = "masked_twice" =>
    /\ expanded.pinned = apply_masks(env).pinned
    /\ expanded.partial_pins = apply_masks(env).partial_pins

\* The non-negate masks of an envelope, and its negate masks.
AdditiveMasks(e) == {e.masks[i] : i \in {k \in 1..Len(e.masks) : ~e.masks[k].negate}}
NegateMasks(e) == {e.masks[i] : i \in {k \in 1..Len(e.masks) : e.masks[k].negate}}

\* The caller's pins and partial pins that no negate mask matches.
KeptPinned(e) ==
  SelectSeq(e.pinned, LAMBDA a : \A m \in NegateMasks(e) : ~mask_matches(m, a, e.instance))
KeptPartial(e) ==
  SelectSeq(e.partial_pins,
            LAMBDA q : \A m \in NegateMasks(e) : ~partial_pin_matches_mask(m, q, e.instance))

\* The partial pin the claim states for a lock mode other than Full.
LockPartial(m, a) ==
  CASE m.lock = "TimeslotOnly" -> PartialPin(a.courseId, a.timeslot, None)
    [] m.lock = "RoomOnly" -> PartialPin(a.courseId, NoneTs, a.roomId)
    [] OTHER -> PartialPin(a.courseId, a.timeslot, a.roomId)

Count(s, x) == Cardinality({i \in 1..Len(s) : s[i] = x})

\* Every matching (mask, base assignment) pair has its pin or partial pin in
\* the output, a pin once unless the caller pinned it already.
MaskAdds(e, x) ==
  \A m \in AdditiveMasks(e) : \A a \in Range(e.base) :
    mask_matches(m, a, e.instance) =>
      IF m.lock = "Full"
        THEN Count(x.pinned, a) =
               (IF Count(KeptPinned(e), a) > 0 THEN Count(KeptPinned(e), a) ELSE 1)
        ELSE LockPartial(m, a) \in Range(x.partial_pins)

\* Nothing is in the output but the caller's entries and what a matching
\* (mask, base assignment) pair adds.
MaskAddsOnly(e, x) ==
  /\ \A a \in Range(x.pinned) :
       \/ a \in Range(e.pinned)
       \/ \E m \in AdditiveMasks(e) :
            m.lock = "Full" /\ a \in Range(e.base) /\ mask_matches(m, a, e.instance)
  /\ \A q \in Range(x.partial_pins) :
       \/ q \in Range(e.partial_pins)
       \/ \E m \in AdditiveMasks(e) : \E a \in Range(e.base) :
            m.lock # "Full" /\ mask_matches(m, a, e.instance) /\ q = LockPartial(m, a)

\* A partial pin list in the order of (courseId, timeslot, roomId), no triple twice.
SortedNoDup(partial) ==
  \A i, j \in 1..Len(partial) :
    i < j => /\ partial_key(partial[i]) <= partial_key(partial[j])
             /\ partial[i] # partial[j]

\* C12, as amended: every matching pair of a non-negate mask and a base
\* assignment adds the pin or partial pin of its lock mode, nothing else is
\* added, and when the mask list is not empty the resulting partial_pins are
\* sorted by (courseId, timeslot, roomId) with no duplicate triple; with an
\* empty mask list the envelope comes back as it was given.
C12_MaskExpansion ==
  pc = "masked" =>
    /\ MaskAdds(env, expanded)
    /\ MaskAddsOnly(env, expanded)
    /\ env.masks # <<>> => SortedNoDup(expanded.partial_pins)
    /\ env.masks = <<>> => expanded = env

\* C12, as stated: the resulting partial_pins are sorted with no duplicate
\* triple for every envelope.
C12_AlwaysSorted ==
  pc = "masked" =>
    /\ MaskAdds(env, expanded)
    /\ MaskAddsOnly(env, expanded)
    /\ SortedNoDup(expanded.partial_pins)

\* A non-Full mask matched a base assignment, the caller gave a partial pin,
\* and the output holds both.
C12_Witness ==
  /\ pc = "masked"
  /\ \E m \in AdditiveMasks(env) : \E a \in Range(env.base) :
       /\ m.lock # "Full"
       /\ mask_matches(m, a, env.instance)
       /\ \E q \in Range(env.partial_pins) :
            /\ q \in Range(expanded.partial_pins)
            /\ partial_key(q) > partial_key(LockPartial(m, a))
  /\ \E m \in AdditiveMasks(env) : \E a \in Range(env.base) :
       m.lock = "Full" /\ mask_matches(m, a, env.instance) /\ a \notin Range(env.pinned)

\* The mask list with its negate masks moved to the front.
NegatesFirst(masks) ==
  SelectSeq(masks, LAMBDA m : m.negate) \o SelectSeq(masks, LAMBDA m : ~m.negate)

\* What the additive masks of an envelope add from its base.
AddedPins(e) ==
  {a \in Range(e.base) :
     \E m \in AdditiveMasks(e) : m.lock = "Full" /\ mask_matches(m, a, e.instance)}
AddedPartial(e) ==
  {LockPartial(m, a) : <<m, a>> \in
     {ma \in AdditiveMasks(e) \X Range(e.base) :
        ma[1].lock # "Full" /\ mask_matches(ma[1], ma[2], e.instance)}}

\* C13: the negate masks act before any additive mask wherever they stand in
\* the list: the output is that of the list with its negate masks first, a
\* negate mask removes the caller's pins and partial pins it matches, and
\* what the additive masks add is in the output whether or not a negate mask
\* matches it.
C13_NegateFirst ==
  pc = "masked" =>
    LET first == apply_masks(WithMasks(env, NegatesFirst(env.masks)))
    IN /\ expanded.pinned = first.pinned
       /\ expanded.partial_pins = first.partial_pins
       /\ AddedPins(env) \subseteq Range(expanded.pinned)
       /\ AddedPartial(env) \subseteq Range(expanded.partial_pins)
       /\ Range(expanded.pinned) = Range(KeptPinned(env)) \cup AddedPins(env)
       /\ Range(expanded.partial_pins) = Range(KeptPartial(env)) \cup AddedPartial(env)

\* A negate mask stands behind an additive mask and matches what that mask
\* added: a pin in one case, a partial pin in another.
C13_Witness ==
  /\ pc = "masked"
  /\ \E i, j \in 1..Len(env.masks) :
       /\ i < j
       /\ ~env.masks[i].negate
       /\ env.masks[j].negate
       /\ \E a \in Range(env.base) :
            /\ mask_matches(env.masks[i], a, env.instance)
            /\ IF env.masks[i].lock = "Full"
                 THEN /\ mask_matches(env.masks[j], a, env.instance)
                      /\ a \in Range(expanded.pinned)
                      /\ a \notin Range(env.pinned)
               ELSE /\ partial_pin_matches_mask(env.masks[j], LockPartial(env.masks[i], a),
                                                env.instance)
                    /\ LockPartial(env.masks[i], a) \in Range(expanded.partial_pins)
                    /\ LockPartial(env.masks[i], a) \notin Range(env.partial_pins)

\* The rearrangements of a mask list that move its non-negate masks among
\* their own positions.
AdditivePermutations(masks) ==
  {[i \in 1..Len(masks) |-> masks[f[i]]] :
     f \in {g \in [1..Len(masks) -> 1..Len(masks)] :
              /\ \A i, j \in 1..Len(masks) : i # j => g[i] # g[j]
              /\ \A i \in 1..Len(masks) : masks[i].negate => g[i] = i}}

\* C14: permuting the non-negate masks changes neither the set of pinned
\* (courseId, timeslot, roomId, teacherId) assignments nor the partial_pins list.
C14_AdditiveOrder ==
  pc = "masked" =>
    \A ms \in AdditivePermutations(env.masks) :
      LET other == apply_masks(WithMasks(env, ms))
      IN /\ {pin_key(a) : a \in Range(other.pinned)}
              = {pin_key(a) : a \in Range(expanded.pinned)}
         /\ other.partial_pins = expanded.partial_pins

\* Two non-negate masks in an order that matters to the loop: swapped, they
\* append their partial pins in another order.
C14_Witness ==
  /\ pc = "masked"
  /\ \E ms \in AdditivePermutations(env.masks) :
       LET kept == negate_loop(env.instance, env.masks, 1, env.pinned, env.partial_pins)
           st0 == [pinned |-> kept.pinned,
                   pins_set |-> {pin_key(a) : a \in Range(kept.pinned)},
                   partial |-> kept.partial_pins]
           here == additive_loop(env.instance, env.masks, env.base, 1, 1, st0)
           there == additive_loop(env.instance, ms, env.base, 1, 1, st0)
       IN /\ here.partial # there.partial
          /\ ms # env.masks

\* Every axis the mask constrains is specified by the partial pin and matches.
AxesMatch(m, q, inst) ==
  LET ci == FirstIndex(Ids(inst.courses), q.courseId)
  IN /\ m.courses = {} \/ q.courseId \in m.courses
     /\ m.groups = {} \/ (ci # 0 /\ inst.courses[ci].groupId \in m.groups)
     /\ m.teachers = {} \/ (ci # 0 /\ inst.courses[ci].teacherId \in m.teachers)
     /\ m.rooms = {} \/ (q.roomId # None /\ q.roomId \in m.rooms)
     /\ m.days = {} \/ (q.timeslot # NoneTs /\ DayOfWeek(q.timeslot) \in m.days)
     /\ m.times = {} \/ (q.timeslot # NoneTs /\ q.timeslot \in m.times)

\* C15: a partial pin of the caller is removed only if some negate mask has
\* every axis it constrains specified by the pin and matching; a pin with no
\* timeslot is not removed by a mask that constrains days or times, a pin with
\* no room not by a mask that constrains rooms.
C15_NegateAxes ==
  pc = "masked" =>
    \A q \in Range(env.partial_pins) :
      q \notin Range(expanded.partial_pins) =>
        \E m \in NegateMasks(env) : AxesMatch(m, q, env.instance)

(***************************************************************************)
(* Claims on the dispatcher and the solvers                                *)
(***************************************************************************)
\* C16: with the MILP solver, a solved MILP result and repairLocalSearch, the
\* returned objective is at most the MILP objective; the result is replaced
\* by the repaired schedule only when that one's objective is strictly lower,
\* stats.improved is true exactly then, and otherwise the objective and the
\* assignments of the MILP result come back as they were. improve_from runs
\* only behind a solved MILP result with repairLocalSearch set.
C16_RepairMonotone ==
  /\ [](pc \in {"repair", "repair_loop"} =>
          /\ env.solver = "Milp"
          /\ env.repairLocalSearch
          /\ result.status = "solved"
          /\ result.stats.method = "milp")
  /\ []((pc = "done" /\ env.solver = "Milp" /\ env.repairLocalSearch
           /\ result.status = "solved") =>
          /\ result.stats.method = "milp+ga"
          /\ result.stats.improved =>
               /\ result.stats.after_objective = result.objective
               /\ result.objective < result.stats.before_objective)
  /\ []((pc = "done" /\ ~(env.solver = "Milp" /\ env.repairLocalSearch
                           /\ result.status = "solved")) =>
          result.stats.method \in {"milp", "ga"})
  /\ [][(pc = "repair_loop" /\ pc' = "done") =>
          /\ result'.status = result.status
          /\ result'.objective <= result.objective
          /\ result'.stats.improved = (parent.objective < result.objective)
          /\ IF result'.stats.improved
               THEN /\ result'.objective = parent.objective
                    /\ result'.objective < result.objective
                    /\ result'.assignments = parent.assignments
                    /\ result'.stats.before_objective = result.objective
             ELSE /\ result'.objective = result.objective
                  /\ result'.assignments = result.assignments]_vars

\* The repair found a schedule of a lower objective than the MILP result.
C16_Witness ==
  /\ pc = "done"
  /\ result.stats.method = "milp+ga"
  /\ result.stats.improved

\* The assignments of a result that belong to a course.
AssignedTo(res, cid) ==
  Cardinality({k \in 1..Len(res.assignments) : res.assignments[k].courseId = cid})

\* C17: when solve_greedy returns "solved" every course has exactly
\* countPerWeek assignments, and it returns "infeasible" exactly when some
\* course has fewer than countPerWeek.
C17_GreedyCounts ==
  pc = "greedy_done" =>
    LET cs == Range(env.instance.courses)
    IN /\ result.status = "solved" =>
            \A c \in cs : AssignedTo(result, c.id) = c.countPerWeek
       /\ result.status = "infeasible" <=>
            \E c \in cs : AssignedTo(result, c.id) < c.countPerWeek

\* A schedule is a point of the MILP model of an envelope: the kept pins
\* followed by the assignments of a set of start variables that satisfies
\* every constraint.
MilpFeasible(e, assignments) ==
  LET prep == build_prep(e)
  IN \E X \in SUBSET declare_starts(prep) :
       /\ Constraints(prep, X)
       /\ Len(extract_solution(prep, X)) = Len(assignments)
       /\ Range(extract_solution(prep, X)) = Range(assignments)

\* A schedule passes the rules of the heuristic's construction: counts met, no
\* clash, every assignment feasible, every partial pin matched.
HeurAccepts(e, assignments) ==
  /\ \A a \in Range(assignments) : idx_course(e.instance, a.courseId) # 0
                                    /\ idx_ts(e.instance, a.timeslot) # 0
  /\ CountsMet(e.instance, assignments)
  /\ NoClash(e.instance, assignments)
  /\ \A a \in Range(assignments) : HardFeasible(e.instance, a)
  /\ \A l \in Range(e.partial_pins) : \E a \in Range(assignments) : PinMatched(l, a)

\* C18: a schedule the heuristic returns as "solved" satisfies every hard
\* constraint of the MILP model of the same envelope, and a schedule the MILP
\* solver returns as "solved" passes the heuristic's construction rules.
C18_SolverAgreement ==
  /\ HeurSolved => MilpFeasible(env, result.assignments)
  /\ MilpSolved => HeurAccepts(env, result.assignments)

\* C19: in every solved schedule a meeting of duration 2 starts at a timeslot
\* whose successor exists and has the same day prefix.
C19_SameDayPeriods ==
  DispatchSolved =>
    \A a \in Range(result.assignments) :
      LET inst == env.instance
          ci == idx_course(inst, a.courseId)
          t == idx_ts(inst, a.timeslot)
      IN (ci # 0 /\ t # 0 /\ inst.courses[ci].duration = 2) =>
           /\ t + 1 <= Len(inst.timeslots)
           /\ day_of(inst.timeslots[t + 1]) = day_of(inst.timeslots[t])

\* The ids of a pinned assignment, or of a partial pin, are ids of the instance.
PinResolves(inst, a) ==
  /\ idx_course(inst, a.courseId) # 0
  /\ idx_ts(inst, a.timeslot) # 0
  /\ idx_room(inst, a.roomId) # 0

PartialPinResolves(inst, l) ==
  /\ idx_course(inst, l.courseId) # 0
  /\ l.timeslot = NoneTs \/ idx_ts(inst, l.timeslot) # 0
  /\ l.roomId = None \/ idx_room(inst, l.roomId) # 0

\* C20: the heuristic solver returns "infeasible", never "solved", for an
\* envelope with a pinned assignment or a partial pin whose course, timeslot
\* or room id does not resolve against the instance.
C20_UnresolvedInfeasible ==
  (/\ env.solver = "Heuristic"
   /\ pc = "done"
   /\ \/ \E a \in Range(env.pinned) : ~PinResolves(env.instance, a)
      \/ \E l \in Range(env.partial_pins) : ~PartialPinResolves(env.instance, l))
    => result.status = "infeasible"

\* C21: infeasibility is a result value.  The heuristic returns "infeasible"
\* with objective 0 and no assignments exactly when no individual could be
\* constructed; the MILP path returns "infeasible" with objective 0 and the
\* envelope's pinned list exactly when no start variable exists or the model
\* has no solution; every call ends with a result of status "solved" or
\* "infeasible".
C21_InfeasibleIsResult ==
  pc = "done" =>
    /\ result.status \in {"solved", "infeasible"}
    /\ env.solver = "Heuristic" =>
         /\ result.status = "infeasible" <=> population = <<>>
         /\ result.status = "infeasible" =>
              result.objective = 0 /\ result.assignments = <<>>
    /\ env.solver = "Milp" =>
         LET prep == build_prep(env)
             starts == declare_starts(prep)
         IN /\ result.status = "infeasible" <=>
                 (starts = {} \/ \A X \in SUBSET starts : ~Constraints(prep, X))
            /\ result.status = "infeasible" =>
                 result.objective = 0 /\ result.assignments = env.pinned

\* The MILP path reported "infeasible" for an envelope with pins whose model
\* has start variables but no solution.
C21_Witness ==
  /\ pc = "done"
  /\ env.solver = "Milp"
  /\ result.status = "infeasible"
  /\ result.assignments # <<>>
  /\ declare_starts(build_prep(env)) # {}

\* C22: two runs of HeurSolver::solve on the same envelope, seed included,
\* return the same status, the same objective and the same assignment list in
\* the same order.
C22_SeededDeterminism ==
  pc = "both_run" =>
    /\ returned[1].status = returned[2].status
    /\ returned[1].objective = returned[2].objective
    /\ returned[1].assignments = returned[2].assignments

\* Both runs returned a schedule of an instance of several days, built where
\* the construction has more than one outcome.
C22_Witness ==
  /\ pc = "both_run"
  /\ returned[2].status = "solved"
  /\ Cardinality(DayOrders(env.instance)) > 1
  /\ Cardinality(randomized_construct_with_pins_and_base(
                   env.instance, build_feasible(env.instance),
                   env.pinned, env.base, env.partial_pins)) > 1


(***************************************************************************)
(* Job registry                                                            *)
(***************************************************************************)
TerminalTags == {"Solved", "Failed"}

\* The moves of a job's status the life cycle allows.
StatusMoves == {<<"Queued", "Running">>, <<"Running", "Solved">>, <<"Running", "Failed">>}

\* Every id enqueue has returned is registered, and a finished task has left
\* Solved with the solver's result for Ok and Failed with the message for Err.
JobsRegistered ==
  /\ DOMAIN task \subseteq DOMAIN jobs
  /\ \A id \in DOMAIN task :
       task[id].pc = "finished" =>
         IF task[id].outcome.ok
           THEN jobs[id] = [tag |-> "Solved", result |-> task[id].outcome.value]
           ELSE jobs[id] = [tag |-> "Failed", message |-> task[id].outcome.error]

\* One step keeps every registered id, moves a status only along the life
\* cycle, leaves a terminal status as it is, and a step of the task of one job
\* changes the entry of no other job.
JobsStep ==
  /\ DOMAIN jobs \subseteq DOMAIN jobs'
  /\ \A id \in DOMAIN jobs :
       /\ jobs'[id] # jobs[id] => <<jobs[id].tag, jobs'[id].tag>> \in StatusMoves
       /\ jobs[id].tag \in TerminalTags => jobs'[id] = jobs[id]
  /\ \A id \in DOMAIN jobs' \ DOMAIN jobs : jobs'[id] = [tag |-> "Queued"]
  /\ \A id \in DOMAIN task :
       task'[id] # task[id] =>
         \A other \in DOMAIN jobs \ {id} : jobs'[other] = jobs[other]

\* C23: for any interleaving of enqueues and running jobs, every id returned
\* by enqueue is in the registry from then on, a status only moves
\* Queued -> Running -> (Solved | Failed), a terminal status is never
\* overwritten, the terminal status is Solved with the result when the solver
\* returns Ok (also for an infeasible result) and Failed with the message when
\* it returns Err, and a job's task writes only its own id.
C23_JobLifeCycle == []JobsRegistered /\ [][JobsStep]_vars

\* Two jobs have run concurrently: one ended Solved with an infeasible
\* result, the other Failed.
C23_Witness ==
  \E a, b \in DOMAIN task :
    /\ task[a].pc = "finished" /\ task[b].pc = "finished"
    /\ jobs[a].tag = "Solved" /\ jobs[a].result.status = "infeasible"
    /\ jobs[b].tag = "Failed"

\* The answer a poll step gives, against the registry at that moment.
PollStep ==
  reply' # reply =>
    LET id == reply'.id
        body == reply'.body
        known == id \in DOMAIN jobs
    IN /\ reply'.route = "result" =>
            /\ body \in JobResults <=> (known /\ jobs[id].tag = "Solved")
            /\ (known /\ jobs[id].tag = "Solved") => body = jobs[id].result
            /\ (known /\ jobs[id].tag # "Solved") => body = [status |-> "not_ready"]
            /\ ~known => body = [status |-> "not_found"]
       /\ reply'.route = "status" =>
            IF known
              THEN /\ body.status = jobs[id].tag
                   /\ jobs[id].tag = "Solved" => body.result = jobs[id].result
                   /\ jobs[id].tag = "Failed" => body.message = jobs[id].message
            ELSE body = [status |-> "not_found"]

\* C24: at every moment of a job's life a result poll returns the full
\* SolveResult if and only if the job is Solved, {status: "not_ready"} for a
\* known job in any other status and {status: "not_found"} for an id never
\* enqueued; a status poll returns the current variant or not_found.
C24_Polls == [][PollStep]_vars

\* A result poll has answered not_ready for a job that has Failed.
C24_Witness ==
  /\ reply.route = "result"
  /\ reply.id \in DOMAIN jobs
  /\ jobs[reply.id].tag = "Failed"
  /\ reply.body = [status |-> "not_ready"]

\* C30: under fair scheduling of the background task every enqueued job
\* eventually reaches a terminal status (Solved or Failed), for every way the
\* solver call can end (Ok, Err or an abnormal abort).
C30_EventuallyTerminal ==
  \A id \in JobIds :
    (id \in DOMAIN jobs) ~> (id \in DOMAIN jobs /\ jobs[id].tag \in TerminalTags)

(***************************************************************************)
(* Instance validator                                                      *)
(***************************************************************************)
IsDecimal(n) == n # <<>> /\ \A i \in 1..Len(n) : n[i] \in Range(DigitChars)

\* The texts n for which t reads "<day>.<n>" with a day name.
IndexTexts(t) ==
  {SubSeq(t, k + 1, Len(t)) :
     k \in {j \in 1..Len(t) : t[j] = "." /\ SubSeq(t, 1, j - 1) \in DayNames}}

\* "<day>.<n>" with n a decimal integer.
SyntaxDecimal(t) == \E n \in IndexTexts(t) : IsDecimal(n)

\* "<day>.<n>" with n a decimal integer of at most u32::MAX, which may be
\* preceded by "+".
SyntaxU32(t) ==
  \E n \in IndexTexts(t) :
    LET m == IF n # <<>> /\ Head(n) = "+" THEN Tail(n) ELSE n
        sig == strip_zeros([i \in 1..Len(m) |-> FirstIndex(DigitChars, m[i]) - 1])
    IN /\ IsDecimal(m)
       /\ \/ Len(sig) < Len(U32MaxDigits)
          \/ Len(sig) = Len(U32MaxDigits) /\ digits_le(sig, U32MaxDigits)

Repeated(list) == {i \in 1..Len(list) : \E j \in 1..(i - 1) : list[j].id = list[i].id}

HasRoom(inst, c) ==
  \E r \in Range(inst.rooms), g \in Range(inst.groups) :
    g.id = c.groupId /\ r.capacity >= g.size /\ c.needs \subseteq r.equip

\* The conditions of a valid instance, given the positions of the timeslot
\* ids of invalid syntax.
WellFormed(inst, bad) ==
  /\ inst.timeslots # <<>> /\ bad = {}
  /\ Repeated(inst.teachers) = {} /\ Repeated(inst.groups) = {}
  /\ Repeated(inst.rooms) = {} /\ Repeated(inst.courses) = {}
  /\ \A t \in Range(inst.teachers) : Range(t.available) \subseteq Range(inst.timeslots)
  /\ \A c \in Range(inst.courses) :
       /\ \E t \in Range(inst.teachers) : t.id = c.teacherId
       /\ \E g \in Range(inst.groups) : g.id = c.groupId
       /\ c.countPerWeek >= 1
       /\ c.duration \in {1, 2}
       /\ HasRoom(inst, c)

\* The number of violations of an instance.
Violations(inst, bad) ==
  LET B(p) == IF p THEN 1 ELSE 0
      perTeacher == [i \in 1..Len(inst.teachers) |->
                       Cardinality({k \in 1..Len(inst.teachers[i].available) :
                                      inst.teachers[i].available[k] \notin Range(inst.timeslots)})]
      perCourse == [i \in 1..Len(inst.courses) |->
                      LET c == inst.courses[i]
                      IN B(\A t \in Range(inst.teachers) : t.id # c.teacherId)
                         + B(\A g \in Range(inst.groups) : g.id # c.groupId)
                         + B(c.countPerWeek < 1) + B(c.duration \notin {1, 2})
                         + B(~HasRoom(inst, c) /\ \E g \in Range(inst.groups) : g.id = c.groupId)
                         + B((\A g \in Range(inst.groups) : g.id # c.groupId)
                             /\ \A r \in Range(inst.rooms) : ~(c.needs \subseteq r.equip))]
  IN B(inst.timeslots = <<>>) + Cardinality(bad)
     + Cardinality(Repeated(inst.teachers)) + Cardinality(Repeated(inst.groups))
     + Cardinality(Repeated(inst.rooms)) + Cardinality(Repeated(inst.courses))
     + SetSum(1..Len(inst.teachers), perTeacher)
     + SetSum(1..Len(inst.courses), perCourse)

\* The error joins one diagnostic per violation with "; ".
JoinedDiagnostics(message, n) ==
  /\ Len(message) = 2 * n - 1
  /\ \A i \in 1..Len(message) :
       IF i % 2 = 0 THEN message[i] = Text("; ") ELSE message[i] # Text("; ")

BadDecimal(inst) == {i \in 1..Len(inst.timeslots) : ~SyntaxDecimal(inst.timeslots[i])}

BadU32(inst) == {i \in 1..Len(inst.timeslots) : ~SyntaxU32(inst.timeslots[i])}

\* C25: validate returns Ok exactly when the timeslot list is non-empty with
\* every id of valid "<day>.<n>" syntax, ids are unique within teachers,
\* groups, rooms and courses, every availability entry is a known timeslot,
\* and every course references an existing teacher and group, has
\* countPerWeek >= 1, duration in {1, 2} and a room of sufficient capacity
\* with all required equipment; otherwise it returns one error joining one
\* diagnostic per violation with "; ".  Here n is any decimal integer.
C25_ValidateDecimal ==
  pc = "validated" =>
    /\ result.ok <=> WellFormed(env.instance, BadDecimal(env.instance))
    /\ ~result.ok =>
         JoinedDiagnostics(result.message, Violations(env.instance, BadDecimal(env.instance)))

\* C25 with the syntax validate accepts: n is a decimal integer of at most
\* 4294967295, optionally preceded by "+".
C25_ValidateU32 ==
  pc = "validated" =>
    /\ result.ok <=> WellFormed(env.instance, BadU32(env.instance))
    /\ ~result.ok =>
         JoinedDiagnostics(result.message, Violations(env.instance, BadU32(env.instance)))

\* validate has rejected, for two or more violations, an instance with
\* courses all of whose timeslot ids have valid syntax.
C25_Witness ==
  /\ pc = "validated"
  /\ ~result.ok
  /\ Len(result.message) >= 3
  /\ env.instance.courses # <<>>
  /\ BadU32(env.instance) = {}

(***************************************************************************)
(* Mutation                                                                *)
(***************************************************************************)
\* The parent is clash-free, holds every pin and matches every partial pin.
SoundParent(e, assignments) ==
  /\ NoClash(e.instance, assignments)
  /\ Range(e.pinned) \subseteq Range(assignments)
  /\ \A l \in Range(e.partial_pins) : \E a \in Range(assignments) : PinMatched(l, a)

\* The child keeps the parent's length and meetings per course, leaves pinned
\* and locked meetings where the locks hold them, matches every partial pin
\* and is clash-free.
LocksKept(e, old, new) ==
  /\ Len(new) = Len(old)
  /\ \A i \in 1..Len(old) :
       /\ new[i].courseId = old[i].courseId
       /\ pin_key(old[i]) \in pinset(e.pinned) => new[i] = old[i]
       /\ <<old[i].courseId, old[i].timeslot>> \in time_locked(e.partial_pins)
            => new[i].timeslot = old[i].timeslot
       /\ <<old[i].courseId, old[i].roomId>> \in room_locked(e.partial_pins)
            => new[i].roomId = old[i].roomId
       /\ <<old[i].courseId, old[i].timeslot, old[i].roomId>> \in time_room_locked(e.partial_pins)
            => new[i] = old[i]
  /\ \A l \in Range(e.partial_pins) : \E a \in Range(new) : PinMatched(l, a)
  /\ NoClash(e.instance, new)

\* The moved meetings sit on cells of the table build_feasible computes.
MovedOnTable(e, old, new) ==
  \A i \in 1..Len(new) :
    new[i] # old[i] =>
      <<idx_ts(e.instance, new[i].timeslot), idx_room(e.instance, new[i].roomId)>>
        \in build_feasible(e.instance)[idx_course(e.instance, new[i].courseId)]

\* The moved meetings are hard-feasible: room, equipment and availability
\* fit, and a two-period meeting has both periods on one day.
MovedFeasible(e, old, new) ==
  \A i \in 1..Len(new) :
    new[i] # old[i] =>
      LET inst == e.instance
          t == idx_ts(inst, new[i].timeslot)
      IN /\ HardFeasible(inst, new[i])
         /\ inst.courses[idx_course(inst, new[i].courseId)].duration = 2 =>
              /\ t + 1 <= Len(inst.timeslots)
              /\ day_of(inst.timeslots[t + 1]) = day_of(inst.timeslots[t])

SortedByObjective(pop) ==
  \A i \in 1..(Len(pop) - 1) : pop[i].objective <= pop[i + 1].objective

\* In the GA loop the population is sorted and within its size limit; the
\* result returned is the first, lowest individual with its evaluated score.
GaState ==
  /\ pc = "ga" =>
       /\ SortedByObjective(population)
       /\ Len(population) >= 1
       /\ Len(population) <= pop_size(env.instance)
  /\ HeurSolved =>
       /\ result.assignments = population[1].assignments
       /\ result.objective = population[1].objective
       /\ result.objective =
            compute_soft_scores(env.instance, result.assignments).objective
       /\ \A i \in 1..Len(population) : result.objective <= population[i].objective

\* One iteration keeps the size; a changed population is the old one without
\* its worst plus one entrant strictly below that worst; the best objective
\* does not increase.
GaIteration ==
  (pc = "ga" /\ pc' = "ga" /\ iters' = iters + 1) =>
    /\ Len(population') = Len(population)
    /\ population'[1].objective <= population[1].objective
    /\ population' # population =>
         \E k \in 1..Len(population') :
           /\ population'[k].objective < population[Len(population)].objective
           /\ SubSeq(population', 1, k - 1) \o SubSeq(population', k + 1, Len(population'))
                = SubSeq(population, 1, Len(population) - 1)

\* C27: throughout the GA loop of HeurSolver::solve the population stays
\* sorted by objective ascending and keeps the size it had after the initial
\* construction (at most the population limit), a child enters only if its
\* objective is strictly lower than the current worst, which is then dropped,
\* the best objective never increases, and the result is the lowest-objective
\* individual with result.objective equal to its evaluated score.
C27_GaLoop == []GaState /\ [][GaIteration]_vars

\* The GA loop has run all its iterations on a population of two individuals
\* of different objectives and has returned the better one.
C27_Witness ==
  /\ HeurSolved
  /\ iters = GaIters
  /\ Len(population) = 2
  /\ population[1].objective < population[2].objective
  /\ result.objective = population[1].objective

\* The candidate of improve_from carries its evaluated score, and the
\* schedule it returns for a clash-free MILP schedule is clash-free, has
\* countPerWeek meetings per course, every pin and a match for every
\* partial pin.
RepairState ==
  pc = "repair_loop" =>
    /\ parent.objective = compute_soft_scores(env.instance, parent.assignments).objective
    /\ (iters = RepairSteps /\ NoClash(env.instance, result.assignments)) =>
         /\ NoClash(env.instance, parent.assignments)
         /\ CountsMet(env.instance, parent.assignments)
         /\ Range(env.pinned) \subseteq Range(parent.assignments)
         /\ \A l \in Range(env.partial_pins) :
              \E a \in Range(parent.assignments) : PinMatched(l, a)

\* A step of the loop replaces the candidate only by a strictly better one.
RepairIteration ==
  (pc = "repair_loop" /\ pc' = "repair_loop" /\ parent' # parent) =>
    parent'.objective < parent.objective

\* C28: improve_from is pure hill-climbing: the candidate's objective never
\* increases (a child replaces the parent only when strictly better), the
\* returned objective equals compute_soft_scores of the returned
\* assignments, and started from a clash-free MILP schedule the returned
\* schedule is clash-free, has countPerWeek meetings per course and still
\* contains every pin and a match for every partial pin.
C28_RepairHillClimb == []RepairState /\ [][RepairIteration]_vars

(***************************************************************************)
(* Pins that already meet the course counts                                *)
(***************************************************************************)
\* MilpSolver::solve has returned, and the repair has not touched the result.
MilpReturned ==
  /\ env.solver = "Milp"
  /\ \/ pc = "repair"
     \/ pc = "done" /\ (~env.repairLocalSearch \/ result.status = "infeasible")

\* The pinned list resolves against the instance and is clash-free.
PinsSound(e) ==
  /\ \A a \in Range(e.pinned) : PinResolves(e.instance, a)
  /\ NoClash(e.instance, e.pinned)

\* The pins supply countPerWeek meetings of the course.
PinsSupply(e, ci) ==
  CountCourse(e.pinned, e.instance.courses[ci].id) = e.instance.courses[ci].countPerWeek

\* The meetings of the course in the result are its pins, and no unpinned
\* base entry of the course is in the result.
OnlyPinsOf(e, ci, assignments) ==
  LET id == e.instance.courses[ci].id
  IN /\ SelectSeq(assignments, LAMBDA a : a.courseId = id)
          = SelectSeq(e.pinned, LAMBDA a : a.courseId = id)
     /\ \A b \in Range(e.base) :
          (b.courseId = id /\ b \notin Range(e.pinned)) => b \notin Range(assignments)

\* C29: when the pinned list (after mask expansion) is clash-free and already
\* supplies countPerWeek meetings for a course, the MILP path adds no further
\* meeting for that course and ignores unpinned base entries; when the pins
\* supply countPerWeek meetings for every course it returns "solved" with
\* assignments equal to the pinned list, also when the pins leave no free
\* feasible cell for any course.
C29_PinsMeetCounts ==
  (MilpReturned /\ PinsSound(env)) =>
    /\ \A ci \in 1..Len(env.instance.courses) :
         PinsSupply(env, ci) => OnlyPinsOf(env, ci, result.assignments)
    /\ (\A ci \in 1..Len(env.instance.courses) : PinsSupply(env, ci)) =>
         /\ result.status = "solved"
         /\ result.assignments = env.pinned
====
